---- MODULE Spec2Model ----
(***************************************************************************)
(* Benchmark harness of the dbt/Snowflake sample project:                  *)
(*   verify_output.py   output verification against baseline fingerprints  *)
(*   report.py          percentage change, regression flags, comparison    *)
(*   baseline.py        baseline store (save / load / clear)               *)
(*   benchmark.py       the run / save-baseline / compare commands         *)
(*                                                                         *)
(* Conventions.  A Python Optional value is a sequence of length at most   *)
(* one: None is <<>> and a present value x is <<x>>.  A dotted name such   *)
(* as DATABASE.SCHEMA.MODEL is the sequence of its components, so that     *)
(* fqn.split('.')[-1] is its last component; the empty string is <<>>.     *)
(***************************************************************************)
EXTENDS Integers, Sequences, FiniteSets, TLC

None == <<>>
Some(x) == <<x>>
IsNone(o) == o = <<>>
IsSome(o) == o # <<>>
Val(o) == o[1]

(* dict.get(key, default) on a record used as a Python dict. *)
DictGet(d, k, default) == IF k \in DOMAIN d THEN d[k] ELSE default

(* A local variable: v is evaluated once, F is what follows with the       *)
(* variable bound to it.                                                   *)
Bind(v, F(_)) == CHOOSE r \in { F(x) : x \in {v} } : TRUE

(* The elements of a list. *)
Range(s) == { s[i] : i \in 1..Len(s) }

(***************************************************************************)
(* Bounds of the model.                                                    *)
(***************************************************************************)
MaxRows == 1
MaxBaseline == 1
MaxMetric == 1
BigMetric == 120000
MaxSaves == 2
MaxCommands == 3

(* Content hashes are opaque: two distinct values decide every comparison. *)
HashVals == {11, 22}

(***************************************************************************)
(* verify_output.py                                                        *)
(***************************************************************************)

(* fqn.split('.')[-1] *)
ModelNameOf(fqn) == IF fqn = <<>> THEN <<>> ELSE <<fqn[Len(fqn)]>>

Fqn(model) == <<"DBT_DEMO", "DEV", model>>

(* BaselineFingerprint.from_dict: missing keys take the defaults, a JSON   *)
(* null stays None.                                                        *)
BaselineFingerprintFromDict(data) ==
    [model_name   |-> DictGet(data, "model_name", <<>>),
     fqn          |-> DictGet(data, "fqn", <<>>),
     row_count    |-> DictGet(data, "row_count", Some(0)),
     content_hash |-> DictGet(data, "content_hash", None)]

(* The key _create_baseline_map files a fingerprint under:                 *)
(* fingerprint.fqn or fingerprint.model_name                               *)
BaselineKey(fp) == IF fp.fqn # <<>> THEN fp.fqn ELSE fp.model_name

(* _create_baseline_map: a dict filled in list order, so a later entry     *)
(* with the same key replaces an earlier one.  The map is a function from  *)
(* the keys present to fingerprints.                                       *)
RECURSIVE CreateBaselineMap(_)
CreateBaselineMap(fps) ==
    IF fps = <<>> THEN <<>>
    ELSE LET init == CreateBaselineMap(SubSeq(fps, 1, Len(fps) - 1))
             fp   == BaselineFingerprintFromDict(fps[Len(fps)])
             key  == BaselineKey(fp)
         IN  [k \in (DOMAIN init) \cup {key} |->
                 IF k = key THEN fp ELSE init[k]]

(* baseline_map.get(fqn) or baseline_map.get(model_name); a dataclass      *)
(* instance is always truthy, so the first hit wins.                       *)
LookupBaseline(baseline_map, fqn) ==
    IF fqn \in DOMAIN baseline_map THEN Some(baseline_map[fqn])
    ELSE IF ModelNameOf(fqn) \in DOMAIN baseline_map
         THEN Some(baseline_map[ModelNameOf(fqn)])
         ELSE None

(* A table as the warehouse answers for it: count is None when the         *)
(* row-count query fails or returns no row; hash_agg and sum_hash are None *)
(* when that query fails, is unavailable or returns NULL.  The answers to  *)
(* queries the code can never reach are left None: no hash is asked of a   *)
(* table that cannot be counted, no fallback once HASH_AGG has answered.   *)
TableStates ==
    { t \in [count : {None} \cup {Some(n) : n \in 0..MaxRows},
             hash_agg : {None} \cup {Some(h) : h \in HashVals},
             sum_hash : {None} \cup {Some(h) : h \in HashVals}] :
        /\ IsNone(t.count) => IsNone(t.hash_agg) /\ IsNone(t.sum_hash)
        /\ IsSome(t.hash_agg) => IsNone(t.sum_hash) }

Query(kind, fqn) == [sql |-> kind, fqn |-> fqn]

(* _get_row_count *)
GetRowCount(fqn, tbl) ==
    [value |-> tbl.count, queries |-> <<Query("COUNT", fqn)>>]

(* _try_hash_agg *)
TryHashAgg(fqn, tbl) ==
    [value |-> tbl.hash_agg, queries |-> <<Query("HASH_AGG", fqn)>>]

(* _try_sum_hash *)
TrySumHash(fqn, tbl) ==
    [value |-> tbl.sum_hash, queries |-> <<Query("SUM_HASH", fqn)>>]

(* Mutant of _get_content_hash: the empty-table shortcut is dropped.       *)
GetContentHashNoSkip(fqn, tbl, row_count) ==
    LET agg == TryHashAgg(fqn, tbl)
        sum == TrySumHash(fqn, tbl)
    IN  IF IsSome(agg.value) THEN agg
        ELSE [value |-> sum.value, queries |-> agg.queries \o sum.queries]

(* _get_content_hash: empty tables are never hashed; HASH_AGG first, then  *)
(* the SUM-of-HASH fallback when HASH_AGG gave nothing.                    *)
GetContentHash(fqn, tbl, row_count) ==
    IF row_count = 0 THEN [value |-> None, queries |-> <<>>]
    ELSE LET agg == TryHashAgg(fqn, tbl)
             sum == TrySumHash(fqn, tbl)
         IN  IF IsSome(agg.value) THEN agg
             ELSE [value |-> sum.value, queries |-> agg.queries \o sum.queries]

(* _get_current_fingerprint: None when the row count cannot be read.       *)
GetCurrentFingerprint(fqn, tbl) ==
    LET rc == GetRowCount(fqn, tbl)
    IN  IF IsNone(rc.value) THEN [value |-> None, queries |-> rc.queries]
        ELSE LET ch == GetContentHash(fqn, tbl, Val(rc.value))
             IN  [value |-> Some([model_name   |-> ModelNameOf(fqn),
                                  fqn          |-> fqn,
                                  row_count    |-> Val(rc.value),
                                  content_hash |-> ch.value]),
                  queries |-> rc.queries \o ch.queries]

(* The messages of a result: error_message is its parts joined by " | ".   *)
RowCountMismatch(expected, got) ==
    [kind |-> "Row count mismatch", expected |-> expected, got |-> Some(got)]
HashMismatch(expected, got) ==
    [kind |-> "Content hash mismatch", expected |-> Some(expected), got |-> Some(got)]
NoBaselineMessage ==
    [kind |-> "No baseline available (first run)", expected |-> None, got |-> None]
FetchFailedMessage ==
    [kind |-> "Failed to retrieve fingerprint", expected |-> None, got |-> None]
SystemErrorMessage ==
    [kind |-> "Verification system error", expected |-> None, got |-> None]

AcceptedAsBaselineWarning == "No baseline fingerprint found - output accepted as baseline"
NoCurrentHashWarning == "Could not compute current content hash for comparison"
NoBaselineHashWarning == "Current content hash computed but baseline has none"

(* Mutant of the row-count check: a mismatch is recorded but not failed.   *)
CheckRowCountLenient(baseline, current) ==
    [match  |-> baseline.row_count = Some(current.row_count),
     passed |-> TRUE,
     errors |-> <<>>]

(* _compare_fingerprints, lines 499-512: the row-count check.              *)
CheckRowCount(baseline, current) ==
    LET row_count_match == baseline.row_count = Some(current.row_count)
    IN  [match  |-> row_count_match,
         passed |-> row_count_match,
         errors |-> IF row_count_match THEN <<>>
                    ELSE <<RowCountMismatch(baseline.row_count, current.row_count)>>]

(* Mutant of the hash check: the two hashes are never compared.            *)
CheckHashSkipped(baseline, current, row_count_match) ==
    [hash_match |-> Some(TRUE), passed |-> TRUE, errors |-> <<>>, warnings |-> <<>>]

(* Mutant of the hash check: a one-sided hash counts as a match.           *)
CheckHashOneSidedMatch(baseline, current, row_count_match) ==
    IF row_count_match /\ current.row_count > 0
         /\ IsSome(baseline.content_hash) /\ IsSome(current.content_hash)
         /\ baseline.content_hash # current.content_hash
    THEN [hash_match |-> Some(FALSE), passed |-> FALSE,
          errors |-> <<HashMismatch(Val(baseline.content_hash),
                                    Val(current.content_hash))>>,
          warnings |-> <<>>]
    ELSE [hash_match |-> Some(TRUE), passed |-> TRUE, errors |-> <<>>,
          warnings |-> <<>>]

(* Mutant of the hash check: hash_match is left indeterminate whenever     *)
(* two hashes were not compared.                                           *)
CheckHashUncomparedIndeterminate(baseline, current, row_count_match) ==
    IF row_count_match /\ current.row_count > 0
         /\ IsSome(baseline.content_hash) /\ IsSome(current.content_hash)
    THEN IF baseline.content_hash = current.content_hash
         THEN [hash_match |-> Some(TRUE), passed |-> TRUE, errors |-> <<>>,
               warnings |-> <<>>]
         ELSE [hash_match |-> Some(FALSE), passed |-> FALSE,
               errors |-> <<HashMismatch(Val(baseline.content_hash),
                                         Val(current.content_hash))>>,
               warnings |-> <<>>]
    ELSE [hash_match |-> None, passed |-> TRUE, errors |-> <<>>,
          warnings |-> <<>>]

(* _compare_fingerprints, lines 514-547: the content-hash check.           *)
(* hash_match is Some(TRUE) / Some(FALSE), or None when indeterminate.     *)
CheckHash(baseline, current, row_count_match) ==
    LET baseline_hash == baseline.content_hash
        current_hash  == current.content_hash
        untouched == [hash_match |-> Some(TRUE), passed |-> TRUE,
                      errors |-> <<>>, warnings |-> <<>>]
    IN  IF row_count_match /\ current.row_count > 0
        THEN IF IsSome(baseline_hash) /\ IsSome(current_hash)
             THEN IF baseline_hash = current_hash THEN untouched
                  ELSE [hash_match |-> Some(FALSE), passed |-> FALSE,
                        errors |-> <<HashMismatch(Val(baseline_hash),
                                                  Val(current_hash))>>,
                        warnings |-> <<>>]
             ELSE IF IsSome(baseline_hash) /\ IsNone(current_hash)
             THEN [hash_match |-> None, passed |-> TRUE, errors |-> <<>>,
                   warnings |-> <<NoCurrentHashWarning>>]
             ELSE IF IsNone(baseline_hash) /\ IsSome(current_hash)
             THEN [hash_match |-> None, passed |-> TRUE, errors |-> <<>>,
                   warnings |-> <<NoBaselineHashWarning>>]
             ELSE untouched
        ELSE untouched

(* VerificationResult.to_dict *)
VerificationResult(model_name, fqn, passed, rcm, hm, brc, crc, bh, ch, errs, warns) ==
    [model_name         |-> model_name,
     fqn                |-> fqn,
     passed             |-> passed,
     row_count_match    |-> rcm,
     hash_match         |-> hm,
     baseline_row_count |-> brc,
     current_row_count  |-> crc,
     baseline_hash      |-> bh,
     current_hash       |-> ch,
     error_message      |-> errs,
     warnings           |-> warns]

(* _compare_fingerprints *)
CompareFingerprints(baseline, current) ==
    LET rc == CheckRowCount(baseline, current)
        hc == CheckHash(baseline, current, rc.match)
    IN  VerificationResult(current.model_name, current.fqn,
                           rc.passed /\ hc.passed,
                           Some(rc.match), hc.hash_match,
                           baseline.row_count, Some(current.row_count),
                           baseline.content_hash, current.content_hash,
                           rc.errors \o hc.errors, hc.warnings)

(* Mutant of the first-run result: a model without baseline is failed.     *)
FirstRunResultFailing(fqn) ==
    VerificationResult(ModelNameOf(fqn), fqn, FALSE, None, None, None, None,
                       None, None, <<NoBaselineMessage>>, <<>>)

(* The first-run result of _verify_single_model, lines 279-287.            *)
FirstRunResult(fqn) ==
    VerificationResult(ModelNameOf(fqn), fqn, TRUE, None, None, None, None,
                       None, None, <<NoBaselineMessage>>,
                       <<AcceptedAsBaselineWarning>>)

(* _verify_single_model: the result and the queries it issued.             *)
VerifySingleModel(fqn, baseline_map, tbl) ==
    LET baseline == LookupBaseline(baseline_map, fqn)
    IN  IF IsNone(baseline)
        THEN [result |-> FirstRunResult(fqn), queries |-> <<>>]
        ELSE LET current == GetCurrentFingerprint(fqn, tbl)
             IN  IF IsNone(current.value)
                 THEN [result |-> VerificationResult(ModelNameOf(fqn), fqn, FALSE,
                                     None, None, None, None, None, None,
                                     <<FetchFailedMessage>>, <<>>),
                       queries |-> current.queries]
                 ELSE [result |-> CompareFingerprints(Val(baseline),
                                                      Val(current.value)),
                       queries |-> current.queries]

(* VerificationSummary.to_dict (success_rate and timestamp left out).      *)
VerificationSummary(pipeline_id, total, passed, results) ==
    [pipeline_id   |-> pipeline_id,
     total_models  |-> total,
     passed_models |-> passed,
     failed_models |-> total - passed,
     results       |-> results]

(* _create_failed_summary *)
CreateFailedSummary(pipeline_id, model_fqns) ==
    VerificationSummary(pipeline_id, Len(model_fqns), 0,
        [i \in 1..Len(model_fqns) |->
            VerificationResult(ModelNameOf(model_fqns[i]), model_fqns[i], FALSE,
                               None, None, None, None, None, None,
                               <<SystemErrorMessage>>, <<>>)])

(* The loop of verify_models, lines 202-210, over the first n models.      *)
RECURSIVE VerifyLoop(_, _, _, _)
VerifyLoop(model_fqns, baseline_map, tables, n) ==
    IF n = 0 THEN [results |-> <<>>, passed_count |-> 0, queries |-> <<>>]
    ELSE LET before == VerifyLoop(model_fqns, baseline_map, tables, n - 1)
             one    == VerifySingleModel(model_fqns[n], baseline_map,
                                         tables[model_fqns[n]])
         IN  [results      |-> Append(before.results, one.result),
              passed_count |-> before.passed_count
                                 + (IF one.result.passed THEN 1 ELSE 0),
              queries      |-> before.queries \o one.queries]

(* verify_models: connect, verify every model, close (finally).            *)
(* connect_ok is what sf_conn.connect() returns; tables are the            *)
(* warehouse's answers.  opened / closed count connect() successes and     *)
(* close() calls.                                                          *)
VerifyModels(pipeline_id, model_fqns, baseline_fingerprints, connect_ok, tables) ==
    IF ~connect_ok
    THEN [summary |-> CreateFailedSummary(pipeline_id, model_fqns),
          queries |-> <<>>, opened |-> 0, closed |-> 0]
    ELSE LET baseline_map == CreateBaselineMap(baseline_fingerprints)
             loop == VerifyLoop(model_fqns, baseline_map, tables, Len(model_fqns))
         IN  [summary |-> VerificationSummary(pipeline_id, Len(model_fqns),
                                              loop.passed_count, loop.results),
              queries |-> loop.queries, opened |-> 1, closed |-> 1]

(***************************************************************************)
(* report.py                                                               *)
(*                                                                         *)
(* Numbers.  Metric values are integers (milliseconds, bytes, rows).  A    *)
(* percentage is kept in tenths of a percent, so round(x, 1) is a rounding *)
(* to an integer; a cost is kept in ten-thousandths of a dollar, so        *)
(* round(x, 4) is a rounding to an integer; cost_per_credit_usd is kept in *)
(* cents.                                                                  *)
(***************************************************************************)

Abs(x) == IF x < 0 THEN -x ELSE x

Max(a, b) == IF a >= b THEN a ELSE b

(* round() of the quotient n / d, d > 0: the nearest integer, a tie going  *)
(* to the even neighbour.                                                  *)
RoundDiv(n, d) ==
    LET a == Abs(n)
        q == a \div d
        r == a % d
        m == IF 2 * r > d THEN q + 1
             ELSE IF 2 * r = d THEN q + (q % 2)
             ELSE q
    IN  IF n < 0 THEN -m ELSE m

MinBillableSeconds == 60

DefaultCreditsPerHour == 1

DefaultCostPerCreditCents == 250

(* What _load_cost_config can return: None (no file, or not enabled), or   *)
(* the cost_estimation mapping of benchmark_config.yml.                    *)
CostConfigs ==
    { None,
      Some([enabled |-> TRUE]),
      Some([enabled |-> TRUE, credits_per_hour |-> 2,
            cost_per_credit_usd |-> 300]) }

(* Mutant of _calculate_cost: the raw execution time is billed, without    *)
(* the minimum of line 95.                                                 *)
CalculateCostUnfloored(execution_time_ms, cost_config) ==
    IF IsNone(cost_config) THEN None
    ELSE LET credits_per_hour ==
                 DictGet(Val(cost_config), "credits_per_hour",
                         DefaultCreditsPerHour)
             cost_per_credit ==
                 DictGet(Val(cost_config), "cost_per_credit_usd",
                         DefaultCostPerCreditCents)
         IN  Some(RoundDiv(execution_time_ms * credits_per_hour
                               * cost_per_credit,
                           36000))

(* _calculate_cost: None when cost estimation is off, else                 *)
(* round(max(60, ms / 1000) / 3600 * credits_per_hour * cost_per_credit, 4) *)
CalculateCost(execution_time_ms, cost_config) ==
    IF IsNone(cost_config) THEN None
    ELSE LET billable_ms == Max(MinBillableSeconds * 1000, execution_time_ms)
             credits_per_hour ==
                 DictGet(Val(cost_config), "credits_per_hour",
                         DefaultCreditsPerHour)
             cost_per_credit ==
                 DictGet(Val(cost_config), "cost_per_credit_usd",
                         DefaultCostPerCreditCents)
         IN  Some(RoundDiv(billable_ms * credits_per_hour * cost_per_credit,
                           36000))

MetricComparison(metric_name, metric_key, baseline_value, current_value, change_pct, is_regression) ==
    [metric_name |-> metric_name, metric_key |-> metric_key,
     baseline_value |-> baseline_value, current_value |-> current_value,
     change_pct |-> change_pct, is_regression |-> is_regression]

(* Mutant of _calculate_percentage_change: growth from a zero baseline is  *)
(* reported as +100.0%.                                                    *)
CalculatePercentageChangeFromZero(baseline, current) ==
    IF baseline = 0 THEN (IF current > 0 THEN 1000 ELSE 0)
    ELSE RoundDiv(1000 * (current - baseline), Abs(baseline))

(* Mutant of _calculate_percentage_change: the baseline is left out of the *)
(* difference.                                                             *)
CalculatePercentageChangeOfCurrent(baseline, current) ==
    IF baseline = 0 THEN 0
    ELSE RoundDiv(1000 * current, Abs(baseline))

(* _calculate_percentage_change, in tenths of a percent:                   *)
(* 0.0 for a zero baseline, else                                           *)
(* round(((current - baseline) / abs(baseline)) * 100, 1).                 *)
CalculatePercentageChange(baseline, current) ==
    IF baseline = 0 THEN 0
    ELSE RoundDiv(1000 * (current - baseline), Abs(baseline))

regression_metrics ==
    { "execution_time_change_pct", "bytes_scanned_change_pct",
      "partitions_scanned_change_pct" }

(* _is_regression *)
IsRegression(metric_name, change_pct) ==
    IF metric_name \in regression_metrics THEN change_pct > 0 ELSE FALSE

(* metric_set_name.lower() *)
Lower(metric_set_name) ==
    CASE metric_set_name = "Build" -> "build"
      [] metric_set_name = "Query" -> "query"
      [] OTHER -> metric_set_name

(* A warning of _compare_metric_set: what increased, and by how much.      *)
IncreaseWarning(what, change_pct) == [what |-> what, pct |-> change_pct]

(* _compare_metric_set: the comparisons and the warnings of one metric     *)
(* set.  A name or key f'{set} Execution Time' is the pair of its parts.   *)
CompareMetricSet(baseline_metrics, current_metrics, metric_set_name, cost_config) ==
    LET baseline_exec_time ==
            DictGet(baseline_metrics, "total_execution_time_ms", 0)
        current_exec_time ==
            DictGet(current_metrics, "total_execution_time_ms", 0)
        baseline_bytes == DictGet(baseline_metrics, "total_bytes_scanned", 0)
        current_bytes == DictGet(current_metrics, "total_bytes_scanned", 0)
        baseline_rows == DictGet(baseline_metrics, "total_rows_produced", 0)
        current_rows == DictGet(current_metrics, "total_rows_produced", 0)
        baseline_cost == CalculateCost(baseline_exec_time, cost_config)
        current_cost == CalculateCost(current_exec_time, cost_config)
        key(k) == <<Lower(metric_set_name), k>>
        exec_time_change ==
            CalculatePercentageChange(baseline_exec_time, current_exec_time)
        exec_time_regression ==
            IsRegression("execution_time_change_pct", exec_time_change)
        bytes_change ==
            CalculatePercentageChange(baseline_bytes, current_bytes)
        bytes_regression ==
            IsRegression("bytes_scanned_change_pct", bytes_change)
        rows_change == CalculatePercentageChange(baseline_rows, current_rows)
        rows_regression ==
            IsRegression("rows_produced_change_pct", rows_change)
        has_cost == IsSome(baseline_cost) /\ IsSome(current_cost)
        cost_change ==
            CalculatePercentageChange(Val(baseline_cost), Val(current_cost))
        cost_regression ==
            IsRegression("execution_time_change_pct", cost_change)
    IN  [comparisons |->
            <<MetricComparison(<<metric_set_name, "Execution Time">>,
                               key("execution_time_change_pct"),
                               baseline_exec_time, current_exec_time,
                               exec_time_change, exec_time_regression),
              MetricComparison(<<metric_set_name, "Bytes Scanned">>,
                               key("bytes_scanned_change_pct"),
                               baseline_bytes, current_bytes,
                               bytes_change, bytes_regression),
              MetricComparison(<<metric_set_name, "Rows Produced">>,
                               key("rows_produced_change_pct"),
                               baseline_rows, current_rows,
                               rows_change, rows_regression)>>
            \o (IF has_cost
                THEN <<MetricComparison(<<metric_set_name, "Estimated Cost">>,
                                        key("cost_change_pct"),
                                        Val(baseline_cost), Val(current_cost),
                                        cost_change, cost_regression)>>
                ELSE <<>>),
         warnings |->
            (IF exec_time_regression
             THEN <<IncreaseWarning("execution_time", exec_time_change)>>
             ELSE <<>>)
            \o (IF bytes_regression
                THEN <<IncreaseWarning("bytes_scanned", bytes_change)>>
                ELSE <<>>)
            \o (IF has_cost /\ cost_regression
                THEN <<IncreaseWarning("estimated_cost", cost_change)>>
                ELSE <<>>)]

(* 'execution_time' in comp.metric_key *)
IsExecutionTimeKey(metric_key) == metric_key[2] = "execution_time_change_pct"

(* The loops of _calculate_tradeoff_analysis: the change of the last       *)
(* comparison whose key names the execution time, 0.0 if there is none.    *)
RECURSIVE ExecChange(_, _)
ExecChange(comparisons, n) ==
    IF n = 0 THEN 0
    ELSE IF IsExecutionTimeKey(comparisons[n].metric_key)
         THEN comparisons[n].change_pct
         ELSE ExecChange(comparisons, n - 1)

(* Mutant of _calculate_tradeoff_analysis: the tests of the first two      *)
(* branches are exchanged.                                                 *)
CalculateTradeoffAnalysisSwapped(build_comparisons, query_comparisons) ==
    LET build_exec_change ==
            ExecChange(build_comparisons, Len(build_comparisons))
        query_exec_change ==
            ExecChange(query_comparisons, Len(query_comparisons))
        recommendation ==
            IF build_exec_change < 0 /\ query_exec_change > 0
                THEN "FAVORABLE"
            ELSE IF build_exec_change > 0 /\ query_exec_change < 0
                THEN "UNFAVORABLE"
            ELSE IF build_exec_change > 0 /\ query_exec_change > 0
                THEN "REGRESSION"
            ELSE IF build_exec_change < 0 /\ query_exec_change < 0
                THEN "IMPROVEMENT"
            ELSE "NEUTRAL"
    IN  [build_cost_change |-> build_exec_change,
         query_performance_change |-> query_exec_change,
         recommendation |-> recommendation]

(* _calculate_tradeoff_analysis *)
CalculateTradeoffAnalysis(build_comparisons, query_comparisons) ==
    LET build_exec_change ==
            ExecChange(build_comparisons, Len(build_comparisons))
        query_exec_change ==
            ExecChange(query_comparisons, Len(query_comparisons))
        recommendation ==
            IF build_exec_change > 0 /\ query_exec_change < 0
                THEN "FAVORABLE"
            ELSE IF build_exec_change < 0 /\ query_exec_change > 0
                THEN "UNFAVORABLE"
            ELSE IF build_exec_change > 0 /\ query_exec_change > 0
                THEN "REGRESSION"
            ELSE IF build_exec_change < 0 /\ query_exec_change < 0
                THEN "IMPROVEMENT"
            ELSE "NEUTRAL"
    IN  [build_cost_change |-> build_exec_change,
         query_performance_change |-> query_exec_change,
         recommendation |-> recommendation]

(* compare_metrics (the timestamp left out).  The query metrics are        *)
(* Optional; the empty dict {} is the empty record <<>>.                   *)
CompareMetrics(baseline_metrics, current_metrics, pipeline_name, verification_status, baseline_query_metrics, current_query_metrics, cost_config) ==
    LET build == CompareMetricSet(baseline_metrics, current_metrics,
                                  "Build", cost_config)
        query ==
            IF IsSome(baseline_query_metrics) /\ IsSome(current_query_metrics)
            THEN CompareMetricSet(Val(baseline_query_metrics),
                                  Val(current_query_metrics),
                                  "Query", cost_config)
            ELSE [comparisons |-> <<>>, warnings |-> <<>>]
    IN  [pipeline_name |-> pipeline_name,
         baseline_metrics |-> baseline_metrics,
         current_metrics |-> current_metrics,
         comparisons |-> build.comparisons \o query.comparisons,
         build_comparisons |-> build.comparisons,
         query_comparisons |-> query.comparisons,
         warnings |-> build.warnings \o query.warnings,
         build_warnings |-> build.warnings,
         query_warnings |-> query.warnings,
         tradeoff_analysis |->
            IF query.comparisons # <<>>
            THEN CalculateTradeoffAnalysis(build.comparisons,
                                           query.comparisons)
            ELSE <<>>,
         has_baseline |-> TRUE,
         verification_status |-> verification_status]

(***************************************************************************)
(* baseline.py                                                             *)
(*                                                                         *)
(* A Python string is the sequence of its tokens ("Pipeline A" is          *)
(* <<"Pipeline", " ", "A">>).  The text of a JSON file is the tree of its  *)
(* values, each tagged with its JSON type; a file that does not parse is   *)
(* the text Garbage.  json.dump and json.load are translated per field,    *)
(* by the Python type the field holds.                                     *)
(***************************************************************************)

JNull == <<"null">>
JNum(n) == <<"number", n>>
JStr(s) == <<"string", s>>
JArr(items) == <<"array", items>>
JObj(members) == <<"object", members>>
Garbage == <<"garbage">>

(* str.lower() *)
LowerToken(t) ==
    CASE t = "Pipeline" -> "pipeline"
      [] t = "A" -> "a"
      [] t = "B" -> "b"
      [] t = "C" -> "c"
      [] OTHER -> t

StrLower(s) == [i \in 1..Len(s) |-> LowerToken(s[i])]

(* str.replace(' ', '_') *)
ReplaceSpaces(s) == [i \in 1..Len(s) |-> IF s[i] = " " THEN "_" ELSE s[i]]

(* _get_baseline_file_path *)
GetBaselineFilePath(pipeline_name) ==
    ReplaceSpaces(StrLower(pipeline_name)) \o <<"_baseline.json">>

(* BaselineMetadata.to_dict *)
BaselineMetadataToDict(timestamp, git_commit, dbt_version, username) ==
    [timestamp |-> timestamp, git_commit |-> git_commit,
     dbt_version |-> dbt_version, username |-> username]

(* BaselineData.to_dict *)
BaselineDataToDict(pipeline_name, build_metrics, query_metrics, fingerprints, metadata) ==
    [pipeline_name |-> pipeline_name, build_metrics |-> build_metrics,
     query_metrics |-> query_metrics, fingerprints |-> fingerprints,
     metadata |-> metadata]

(* json.dump of an Optional number / an Optional string *)
DumpOptNum(o) == IF IsNone(o) THEN JNull ELSE JNum(Val(o))
DumpOptStr(o) == IF IsNone(o) THEN JNull ELSE JStr(Val(o))

(* json.dump of a metrics dict: its values are numbers. *)
DumpMetrics(d) == JObj([k \in DOMAIN d |-> JNum(d[k])])

(* json.dump of a fingerprint dict: two strings, two Optional numbers. *)
DumpFingerprint(fp) ==
    JObj([k \in DOMAIN fp |->
            IF k \in {"model_name", "fqn"} THEN JStr(fp[k])
            ELSE DumpOptNum(fp[k])])

DumpMetadata(md) ==
    JObj([k \in DOMAIN md |->
            IF k = "timestamp" THEN JStr(md[k]) ELSE DumpOptStr(md[k])])

(* json.dump(baseline_data.to_dict(), f, indent=2, default=str)            *)
DumpBaseline(data) ==
    JObj([pipeline_name |-> JStr(data.pipeline_name),
          build_metrics |-> DumpMetrics(data.build_metrics),
          query_metrics |-> DumpMetrics(data.query_metrics),
          fingerprints |->
              JArr([i \in 1..Len(data.fingerprints) |->
                        DumpFingerprint(data.fingerprints[i])]),
          metadata |-> DumpMetadata(data.metadata)])

(* json.load of the values above. *)
LoadOpt(j) == IF j = JNull THEN None ELSE Some(j[2])

LoadMetrics(j) == [k \in DOMAIN j[2] |-> j[2][k][2]]

LoadFingerprint(j) ==
    [k \in DOMAIN j[2] |->
        IF k \in {"model_name", "fqn"} THEN j[2][k][2] ELSE LoadOpt(j[2][k])]

LoadMetadata(j) ==
    [k \in DOMAIN j[2] |->
        IF k = "timestamp" THEN j[2][k][2] ELSE LoadOpt(j[2][k])]

(* json.load of a baseline file whose text is a JSON object. *)
LoadBaselineObject(text) ==
    [k \in DOMAIN text[2] |->
        CASE k = "pipeline_name" -> text[2][k][2]
          [] k = "fingerprints" ->
                [i \in 1..Len(text[2][k][2]) |->
                    LoadFingerprint(text[2][k][2][i])]
          [] k = "metadata" -> LoadMetadata(text[2][k])
          [] OTHER -> LoadMetrics(text[2][k])]

(* Mutant of save_baseline: the query metrics are written in place of the  *)
(* build metrics.                                                          *)
SaveBaselineSwapped(files, pipeline_name, build_metrics, query_metrics, fingerprints, env) ==
    IF pipeline_name = <<>>
    THEN [raised |-> TRUE, ret |-> FALSE, files |-> files]
    ELSE LET file_path == GetBaselineFilePath(pipeline_name)
             data == BaselineDataToDict(
                         pipeline_name, query_metrics, query_metrics,
                         fingerprints,
                         BaselineMetadataToDict(env.timestamp, env.git_commit,
                                                env.dbt_version, env.username))
         IN  IF env.write = "ok"
             THEN [raised |-> FALSE, ret |-> TRUE,
                   files |-> [files EXCEPT
                                 ![file_path] = Some(DumpBaseline(data))]]
             ELSE [raised |-> FALSE, ret |-> FALSE, files |-> files]

(* save_baseline.  files maps a path to None (no such file) or to the text *)
(* of the file.  env is what the call meets: the clock, git, dbt, the user *)
(* name, and how the write goes ("ok"; "open_fails", the directory or the  *)
(* file cannot be opened; "write_fails", the file is opened, hence         *)
(* truncated, and the dump breaks off).  ValueError for an empty name;     *)
(* True on success; False on any other exception.                          *)
SaveBaseline(files, pipeline_name, build_metrics, query_metrics, fingerprints, env) ==
    IF pipeline_name = <<>>
    THEN [raised |-> TRUE, ret |-> FALSE, files |-> files]
    ELSE LET file_path == GetBaselineFilePath(pipeline_name)
             data == BaselineDataToDict(
                         pipeline_name, build_metrics, query_metrics,
                         fingerprints,
                         BaselineMetadataToDict(env.timestamp, env.git_commit,
                                                env.dbt_version, env.username))
         IN  CASE env.write = "ok" ->
                    [raised |-> FALSE, ret |-> TRUE,
                     files |-> [files EXCEPT
                                   ![file_path] = Some(DumpBaseline(data))]]
               [] env.write = "write_fails" ->
                    [raised |-> FALSE, ret |-> FALSE,
                     files |-> [files EXCEPT ![file_path] = Some(Garbage)]]
               [] OTHER ->
                    [raised |-> FALSE, ret |-> FALSE, files |-> files]

(* The message of the ValueError load_baseline raises, lines 354-357. *)
OldFormatMessage ==
    <<"Baseline file uses old format. ",
      "Please regenerate baseline with updated benchmark.py">>

(* Mutant of load_baseline: an old-format file is upgraded on the fly, its *)
(* 'metrics' returned as the build metrics.                                *)
LoadBaselineMigrating(files, pipeline_name) ==
    LET file_path == GetBaselineFilePath(pipeline_name)
    IN  IF file_path \notin DOMAIN files \/ IsNone(files[file_path])
        THEN [raised |-> FALSE, error_msg |-> None, data |-> None]
        ELSE IF Val(files[file_path])[1] # "object"
        THEN [raised |-> FALSE, error_msg |-> None, data |-> None]
        ELSE LET data == LoadBaselineObject(Val(files[file_path]))
             IN  IF "metrics" \in DOMAIN data
                    /\ "build_metrics" \notin DOMAIN data
                 THEN [raised |-> FALSE, error_msg |-> None,
                       data |-> Some([build_metrics |-> data.metrics,
                                      query_metrics |-> <<>>,
                                      fingerprints |-> <<>>])]
                 ELSE [raised |-> FALSE, error_msg |-> None,
                       data |-> Some(data)]

(* load_baseline: None when the file is missing or does not parse;         *)
(* ValueError for the old format ('metrics' without 'build_metrics'),      *)
(* error_msg being its message; else the dict as json.load returns it.     *)
LoadBaseline(files, pipeline_name) ==
    LET file_path == GetBaselineFilePath(pipeline_name)
    IN  IF file_path \notin DOMAIN files \/ IsNone(files[file_path])
        THEN [raised |-> FALSE, error_msg |-> None, data |-> None]
        ELSE IF Val(files[file_path])[1] # "object"
        THEN [raised |-> FALSE, error_msg |-> None, data |-> None]
        ELSE LET data == LoadBaselineObject(Val(files[file_path]))
             IN  IF "metrics" \in DOMAIN data
                    /\ "build_metrics" \notin DOMAIN data
                 THEN [raised |-> TRUE, error_msg |-> Some(OldFormatMessage),
                       data |-> None]
                 ELSE [raised |-> FALSE, error_msg |-> None,
                       data |-> Some(data)]

required_fields ==
    <<"pipeline_name", "build_metrics", "query_metrics", "fingerprints",
      "metadata">>

(* validate_baseline, for the Optional dict load_baseline returns (every   *)
(* field present in a file of the model has the JSON type of its name, so  *)
(* the isinstance checks pass).                                            *)
ValidateBaseline(baseline_data) ==
    IF IsNone(baseline_data)
    THEN [valid |-> FALSE, message |-> <<"Baseline data is None">>]
    ELSE LET data == Val(baseline_data)
             missing_fields ==
                 SelectSeq(required_fields, LAMBDA f : f \notin DOMAIN data)
         IN  IF "metrics" \in DOMAIN data /\ "build_metrics" \notin DOMAIN data
             THEN [valid |-> FALSE,
                   message |-> <<"Baseline file uses old format">>]
             ELSE IF missing_fields # <<>>
             THEN [valid |-> FALSE,
                   message |-> <<"Missing required fields">> \o missing_fields]
             ELSE IF "timestamp" \notin DOMAIN data.metadata
             THEN [valid |-> FALSE,
                   message |-> <<"Missing timestamp in metadata">>]
             ELSE [valid |-> TRUE, message |-> <<"Baseline data is valid">>]

(* clear_baseline: True when the file is absent or was deleted, False when *)
(* the deletion fails.                                                     *)
ClearBaseline(files, pipeline_name, unlink_ok) ==
    LET file_path == GetBaselineFilePath(pipeline_name)
    IN  IF IsNone(files[file_path]) THEN [ret |-> TRUE, files |-> files]
        ELSE IF unlink_ok
        THEN [ret |-> TRUE, files |-> [files EXCEPT ![file_path] = None]]
        ELSE [ret |-> FALSE, files |-> files]

(***************************************************************************)
(* run_pipeline.py                                                         *)
(***************************************************************************)

(* str.upper() of a model name *)
Upper(name) ==
    CASE name = "fact_a" -> "FACT_A"
      [] name = "fact_b" -> "FACT_B"
      [] name = "fact_c" -> "FACT_C"
      [] OTHER -> name

(* _convert_to_fqn, database and schema configured *)
ConvertToFqn(model_names) ==
    [i \in 1..Len(model_names) |-> Fqn(Upper(model_names[i]))]

PipelineRunResult(pipeline_id, success, executed_models, fqn_models, error_message, compile_only) ==
    [pipeline_id |-> pipeline_id, success |-> success,
     executed_models |-> executed_models, fqn_models |-> fqn_models,
     error_message |-> error_message, compile_only |-> compile_only]

(* _get_pipeline_selector, lines 127-150: raises for an unknown id. *)
SelectorKnown(pipeline_id) == pipeline_id \in {"A", "B", "C", "all"}

(* run_pipeline with the compile phase's failure ignored: the run phase    *)
(* is invoked whatever the compile phase returned.                         *)
RunPipelineIgnoringCompile(pipeline_id, compile_only, dbt) ==
    IF ~dbt.run_ok
    THEN [raised |-> FALSE, phases |-> <<"compile", "run">>,
          result |-> PipelineRunResult(pipeline_id, FALSE, dbt.manifest, <<>>,
                                       Some(dbt.run_output), compile_only)]
    ELSE [raised |-> FALSE, phases |-> <<"compile", "run">>,
          result |-> PipelineRunResult(pipeline_id, TRUE, dbt.manifest,
                                       ConvertToFqn(dbt.manifest), None,
                                       compile_only)]

(* run_pipeline (timestamps left out).  dbt is what the call meets:        *)
(* raises, the executor cannot be constructed (a configuration file is     *)
(* missing); compile_ok / run_ok, whether _execute_dbt_command reports     *)
(* success for the phase (exit status 0); compile_output / run_output,     *)
(* the text it returns (stdout + stderr of the process); manifest, the     *)
(* model names manifest.json lists for the pipeline's tag.                 *)
(* phases are the dbt commands invoked, in order.                          *)
RunPipeline(pipeline_id, compile_only, dbt) ==
    IF dbt.raises
    THEN [raised |-> TRUE, phases |-> <<>>,
          result |-> PipelineRunResult(pipeline_id, FALSE, <<>>, <<>>, None,
                                       compile_only)]
    ELSE IF ~SelectorKnown(pipeline_id)
    THEN [raised |-> FALSE, phases |-> <<>>,
          result |-> PipelineRunResult(pipeline_id, FALSE, <<>>, <<>>,
                                       Some("Invalid pipeline_id"),
                                       compile_only)]
    ELSE IF ~dbt.compile_ok
    THEN [raised |-> FALSE, phases |-> <<"compile">>,
          result |-> PipelineRunResult(pipeline_id, FALSE, <<>>, <<>>,
                                       Some(dbt.compile_output), compile_only)]
    ELSE IF compile_only
    THEN [raised |-> FALSE, phases |-> <<"compile">>,
          result |-> PipelineRunResult(pipeline_id, TRUE, dbt.manifest,
                                       ConvertToFqn(dbt.manifest), None,
                                       compile_only)]
    ELSE IF ~dbt.run_ok
    THEN [raised |-> FALSE, phases |-> <<"compile", "run">>,
          result |-> PipelineRunResult(pipeline_id, FALSE, dbt.manifest, <<>>,
                                       Some(dbt.run_output), compile_only)]
    ELSE [raised |-> FALSE, phases |-> <<"compile", "run">>,
          result |-> PipelineRunResult(pipeline_id, TRUE, dbt.manifest,
                                       ConvertToFqn(dbt.manifest), None,
                                       compile_only)]

(***************************************************************************)
(* metrics_collector.py                                                    *)
(*                                                                         *)
(* A metrics result keeps its three totals; the descriptive keys           *)
(* (pipeline_id, timestamps, warehouse, model_details) are left out.  A    *)
(* QUERY_HISTORY row keeps the name its DDL text creates (target) and its  *)
(* three counters, each of which may be NULL.                              *)
(***************************************************************************)

MetricsResult(execution_time, bytes_scanned, rows_produced) ==
    [total_execution_time_ms |-> execution_time,
     total_bytes_scanned |-> bytes_scanned,
     total_rows_produced |-> rows_produced]

(* _create_empty_result *)
CreateEmptyResult == MetricsResult(0, 0, 0)

(* query.get(column, 0) or 0 *)
OrZero(o) == IF IsNone(o) THEN 0 ELSE Val(o)

(* _match_queries_to_models: the rows whose DDL target is the model. *)
QueriesOfModel(queries, model) ==
    SelectSeq(queries, LAMBDA q : q.target = Upper(model))

(* The sum of one counter over a list of rows. *)
RECURSIVE SumColumn(_, _)
SumColumn(queries, column) ==
    IF queries = <<>> THEN 0
    ELSE OrZero(Head(queries)[column]) + SumColumn(Tail(queries), column)

(* The sum of one counter over the rows matched to the listed models. *)
RECURSIVE SumOverModels(_, _, _)
SumOverModels(executed_models, queries, column) ==
    IF executed_models = <<>> THEN 0
    ELSE SumColumn(QueriesOfModel(queries, Head(executed_models)), column)
         + SumOverModels(Tail(executed_models), queries, column)

(* _aggregate_metrics with every row of the history counted, matched to   *)
(* a model or not.                                                         *)
AggregateMetricsOverHistory(executed_models, queries) ==
    MetricsResult(SumColumn(queries, "TOTAL_ELAPSED_TIME"),
                  SumColumn(queries, "BYTES_SCANNED"),
                  SumColumn(queries, "ROWS_PRODUCED"))

(* _aggregate_metrics *)
AggregateMetrics(executed_models, queries) ==
    MetricsResult(
        SumOverModels(executed_models, queries, "TOTAL_ELAPSED_TIME"),
        SumOverModels(executed_models, queries, "BYTES_SCANNED"),
        SumOverModels(executed_models, queries, "ROWS_PRODUCED"))

(* Mutant of collect_metrics: the history is aggregated although the       *)
(* connection could not be opened.                                         *)
CollectMetricsUndegraded(pipeline_id, executed_models, fqn_models, wh) ==
    [metrics |-> AggregateMetrics(executed_models, wh.history),
     opened |-> 1, closed |-> 1]

(* collect_metrics.  wh is what the call meets: connect_ok, the outcome of *)
(* sf_conn.connect(); history, the rows QUERY_HISTORY returns (none when   *)
(* the query fails).  opened / closed count the connections opened and the *)
(* close() calls.                                                          *)
CollectMetrics(pipeline_id, executed_models, fqn_models, wh) ==
    IF ~wh.connect_ok
    THEN [metrics |-> CreateEmptyResult, opened |-> 0, closed |-> 0]
    ELSE IF wh.history = <<>>
    THEN [metrics |-> CreateEmptyResult, opened |-> 1, closed |-> 1]
    ELSE [metrics |-> AggregateMetrics(executed_models, wh.history),
          opened |-> 1, closed |-> 1]

(* execute_count_queries on an open connection: the models whose count     *)
(* query succeeds, each with the id of its query.                          *)
ExecuteCountQueries(models, count_ok) ==
    [successful |->
        IF count_ok
        THEN [i \in 1..Len(models) |->
                 [model_name |-> models[i].model_name, fqn |-> models[i].fqn,
                  query_id |-> <<"qid", models[i].model_name>>]]
        ELSE <<>>,
     total_failed |-> IF count_ok THEN 0 ELSE Len(models)]

(* The sum of one counter over the history rows of the listed query ids;   *)
(* an id without a row counts 0.                                           *)
RECURSIVE SumByQueryIds(_, _, _)
SumByQueryIds(query_results, history, column) ==
    IF query_results = <<>> THEN 0
    ELSE LET rows == SelectSeq(history,
                         LAMBDA q : q.QUERY_ID = Head(query_results).query_id)
         IN  (IF rows = <<>> THEN 0 ELSE OrZero(rows[Len(rows)][column]))
             + SumByQueryIds(Tail(query_results), history, column)

(* collect_metrics_by_query_ids *)
CollectMetricsByQueryIds(pipeline_id, query_results, wh) ==
    IF query_results = <<>>
    THEN [metrics |-> CreateEmptyResult, opened |-> 0, closed |-> 0]
    ELSE IF ~wh.connect_ok
    THEN [metrics |-> CreateEmptyResult, opened |-> 0, closed |-> 0]
    ELSE [metrics |->
             MetricsResult(
                 SumByQueryIds(query_results, wh.history, "TOTAL_ELAPSED_TIME"),
                 SumByQueryIds(query_results, wh.history, "BYTES_SCANNED"),
                 SumByQueryIds(query_results, wh.history, "ROWS_PRODUCED")),
          opened |-> 1, closed |-> 1]

(* An entry of model_details. *)
ModelMetrics(model_name, execution_time, bytes_scanned, rows_produced, query_count) ==
    [model_name |-> model_name,
     total_execution_time_ms |-> execution_time,
     total_bytes_scanned |-> bytes_scanned,
     total_rows_produced |-> rows_produced,
     query_count |-> query_count]

(* model_details of _aggregate_metrics, lines 747-787: one entry per       *)
(* executed model, summed over the rows matched to it.                     *)
AggregateModelDetails(executed_models, queries) ==
    [i \in 1..Len(executed_models) |->
        LET matched == QueriesOfModel(queries, executed_models[i])
        IN  ModelMetrics(executed_models[i],
                         SumColumn(matched, "TOTAL_ELAPSED_TIME"),
                         SumColumn(matched, "BYTES_SCANNED"),
                         SumColumn(matched, "ROWS_PRODUCED"),
                         Len(matched))]

(* model_details of collect_metrics: none in the empty result. *)
CollectMetricsDetails(executed_models, wh) ==
    IF ~wh.connect_ok \/ wh.history = <<>> THEN <<>>
    ELSE AggregateModelDetails(executed_models, wh.history)

(* model_details of collect_metrics_by_query_ids, lines 892-915: one entry *)
(* per query id, holding the counters of its history row, 0 without one.   *)
QueryModelDetails(query_results, history) ==
    [i \in 1..Len(query_results) |->
        LET rows == SelectSeq(history,
                        LAMBDA q : q.QUERY_ID = query_results[i].query_id)
            row_of(column) ==
                IF rows = <<>> THEN 0 ELSE OrZero(rows[Len(rows)][column])
        IN  ModelMetrics(query_results[i].model_name,
                         row_of("TOTAL_ELAPSED_TIME"),
                         row_of("BYTES_SCANNED"),
                         row_of("ROWS_PRODUCED"),
                         1)]

(* model_details of collect_metrics_by_query_ids: none in the empty        *)
(* result.                                                                 *)
CollectMetricsByQueryIdsDetails(query_results, wh) ==
    IF query_results = <<>> \/ ~wh.connect_ok THEN <<>>
    ELSE QueryModelDetails(query_results, wh.history)

(* SnowflakeConnection, lines 121-311.  What happens to the connections of *)
(* a command is kept as a list of events: a connection opened (numbered in *)
(* the order of opening), a connect() that failed, a connection closed.    *)
(* handle maps each SnowflakeConnection object to its self.connection.     *)
NoConnections ==
    [events |-> <<>>,
     handle |-> [o \in {"collector", "verifier"} |-> None]]

(* The connections opened so far. *)
OpenedIn(events) ==
    { events[i].conn : i \in { j \in DOMAIN events : events[j].op = "open" } }

(* The connections closed so far. *)
ClosedIn(events) ==
    { events[i].conn : i \in { j \in DOMAIN events : events[j].op = "close" } }

(* SnowflakeConnection.connect, lines 272-302: on success self.connection  *)
(* is the new connection, whatever it was before; on failure it is left    *)
(* as it was.  phase and pid tell for which step and pipeline.             *)
SfConnect(cw, obj, phase, pid, ok) ==
    IF ok
    THEN [events |->
              Append(cw.events,
                     [op |-> "open", phase |-> phase, pid |-> pid,
                      conn |-> Cardinality(OpenedIn(cw.events)) + 1]),
          handle |->
              [cw.handle EXCEPT
                  ![obj] = Some(Cardinality(OpenedIn(cw.events)) + 1)]]
    ELSE [events |->
              Append(cw.events,
                     [op |-> "refused", phase |-> phase, pid |-> pid,
                      conn |-> 0]),
          handle |-> cw.handle]

(* SnowflakeConnection.close, lines 304-311: closes self.connection if     *)
(* there is one, and leaves self.connection as it is.                      *)
SfClose(cw, obj, phase, pid) ==
    IF IsSome(cw.handle[obj])
    THEN [events |->
              Append(cw.events,
                     [op |-> "close", phase |-> phase, pid |-> pid,
                      conn |-> Val(cw.handle[obj])]),
          handle |-> cw.handle]
    ELSE cw

(* A query that failed on the connection of obj, or returned nothing. *)
SfQueryFailed(cw, obj, phase, pid) ==
    [events |->
         Append(cw.events,
                [op |-> "query_failed", phase |-> phase, pid |-> pid,
                 conn |-> Val(cw.handle[obj])]),
     handle |-> cw.handle]

(* The connections of collect_metrics, lines 535-584: connect, the query   *)
(* of the history, and close in the finally clause.                        *)
CollectMetricsConnections(cw, pipeline_id, wh) ==
    IF ~wh.connect_ok
    THEN SfConnect(cw, "collector", "collect", pipeline_id, FALSE)
    ELSE IF wh.history = <<>>
    THEN SfClose(SfQueryFailed(
                     SfConnect(cw, "collector", "collect", pipeline_id, TRUE),
                     "collector", "collect", pipeline_id),
                 "collector", "collect", pipeline_id)
    ELSE SfClose(SfConnect(cw, "collector", "collect", pipeline_id, TRUE),
                 "collector", "collect", pipeline_id)

(* The connections of collect_metrics_by_query_ids, lines 832-946: none    *)
(* without query results; else connect, and close in the finally clause.   *)
CollectMetricsByQueryIdsConnections(cw, pipeline_id, query_results, wh) ==
    IF query_results = <<>> THEN cw
    ELSE IF ~wh.connect_ok
    THEN SfConnect(cw, "collector", "query", pipeline_id, FALSE)
    ELSE SfClose(SfConnect(cw, "collector", "query", pipeline_id, TRUE),
                 "collector", "query", pipeline_id)

(* The connections of verify_models, lines 190-233. *)
VerifyModelsConnections(cw, pipeline_id, connect_ok) ==
    IF ~connect_ok
    THEN SfConnect(cw, "verifier", "verify", pipeline_id, FALSE)
    ELSE SfClose(SfConnect(cw, "verifier", "verify", pipeline_id, TRUE),
                 "verifier", "verify", pipeline_id)

(***************************************************************************)
(* benchmark.py                                                            *)
(***************************************************************************)

EXIT_SUCCESS == 0
EXIT_BENCHMARK_FAILED == 1
EXIT_VERIFICATION_FAILED == 2
EXIT_INVALID_ARGUMENTS == 3

PipelineIds == {"A", "B", "C"}

(* pipeline_arg.lower().strip() *)
LowerStrip(pipeline_arg) ==
    CASE pipeline_arg \in {"a", "A", " a "} -> "a"
      [] pipeline_arg \in {"b", "B"} -> "b"
      [] pipeline_arg \in {"c", "C"} -> "c"
      [] pipeline_arg \in {"all", "ALL"} -> "all"
      [] OTHER -> pipeline_arg

(* Mutant of normalize_pipeline_id: an unknown argument is taken for       *)
(* pipeline A instead of raising ValueError.                               *)
NormalizePipelineIdPermissive(pipeline_arg) ==
    LET arg == LowerStrip(pipeline_arg)
    IN  CASE arg = "b" -> [raised |-> FALSE, id |-> "B"]
          [] arg = "c" -> [raised |-> FALSE, id |-> "C"]
          [] arg = "all" -> [raised |-> FALSE, id |-> "all"]
          [] OTHER -> [raised |-> FALSE, id |-> "A"]

(* normalize_pipeline_id: ValueError unless the argument is a, b, c or all *)
NormalizePipelineId(pipeline_arg) ==
    LET arg == LowerStrip(pipeline_arg)
    IN  CASE arg = "a" -> [raised |-> FALSE, id |-> "A"]
          [] arg = "b" -> [raised |-> FALSE, id |-> "B"]
          [] arg = "c" -> [raised |-> FALSE, id |-> "C"]
          [] arg = "all" -> [raised |-> FALSE, id |-> "all"]
          [] OTHER -> [raised |-> TRUE, id |-> ""]

(* get_pipeline_name *)
GetPipelineName(pipeline_id) ==
    IF pipeline_id = "all" THEN <<"All", " ", "Pipelines">>
    ELSE <<"Pipeline", " ", pipeline_id>>

(* get_result_file_path *)
GetResultFilePath(pipeline_id) ==
    <<"pipeline_", LowerToken(pipeline_id), "_result.json">>

(* [pipeline_id] if pipeline_id != 'all' else ['A', 'B', 'C'] *)
PipelinesOf(pipeline_id) ==
    IF pipeline_id = "all" THEN <<"A", "B", "C">> ELSE <<pipeline_id>>

(* The model a pipeline's tag selects, and its table. *)
PipelineModel(pipeline_id) ==
    CASE pipeline_id = "A" -> "fact_a"
      [] pipeline_id = "B" -> "fact_b"
      [] pipeline_id = "C" -> "fact_c"

PipelineTable(pipeline_id) == Fqn(Upper(PipelineModel(pipeline_id)))

(* fqn.split('.')[-1].lower() *)
LowerModel(name) ==
    CASE name = "FACT_A" -> "fact_a"
      [] name = "FACT_B" -> "fact_b"
      [] name = "FACT_C" -> "fact_c"
      [] OTHER -> name

(* filter_fqn_models_by_final_models: for every final model, in order, the *)
(* fqn whose last component is its name, compared in lower case.           *)
RECURSIVE FilterFqnModelsByFinalModels(_, _)
FilterFqnModelsByFinalModels(fqn_models, final_models) ==
    IF final_models = <<>> THEN <<>>
    ELSE LET final_model == Head(final_models)
             hits == SelectSeq(fqn_models,
                         LAMBDA f : LowerModel(f[Len(f)]) = final_model)
             rest == FilterFqnModelsByFinalModels(fqn_models,
                                                  Tail(final_models))
         IN  IF hits = <<>> THEN rest
             ELSE <<[model_name |-> final_model,
                     fqn |-> hits[Len(hits)]]>> \o rest

(* json.dump of the values of a result file. *)
JBool(b) == <<"bool", b>>
DumpOptBool(o) == IF IsNone(o) THEN JNull ELSE JBool(Val(o))
DumpStrList(l) == JArr([i \in 1..Len(l) |-> JStr(l[i])])

DumpVerificationResult(r) ==
    JObj([model_name |-> JStr(r.model_name),
          fqn |-> JStr(r.fqn),
          passed |-> JBool(r.passed),
          row_count_match |-> DumpOptBool(r.row_count_match),
          hash_match |-> DumpOptBool(r.hash_match),
          baseline_row_count |-> DumpOptNum(r.baseline_row_count),
          current_row_count |-> DumpOptNum(r.current_row_count),
          baseline_hash |-> DumpOptNum(r.baseline_hash),
          current_hash |-> DumpOptNum(r.current_hash),
          error_message |-> IF r.error_message = <<>> THEN JNull
                            ELSE JStr(r.error_message),
          warnings |-> DumpStrList(r.warnings)])

DumpVerification(v) ==
    JObj([pipeline_id |-> JStr(v.pipeline_id),
          total_models |-> JNum(v.total_models),
          passed_models |-> JNum(v.passed_models),
          failed_models |-> JNum(v.failed_models),
          results |-> JArr([i \in 1..Len(v.results) |->
                               DumpVerificationResult(v.results[i])])])

(* run_data: the 'verification' key is present only when the run verified; *)
(* the record holds it as an Optional, None standing for the absent key.   *)
DumpRunData(rd) ==
    LET members == [pipeline_id |-> JStr(rd.pipeline_id),
                    success |-> JBool(rd.success),
                    executed_models |-> DumpStrList(rd.executed_models),
                    fqn_models |-> DumpStrList(rd.fqn_models),
                    metrics |-> DumpMetrics(rd.metrics),
                    query_metrics |-> DumpMetrics(rd.query_metrics)]
    IN  JObj(IF IsNone(rd.verification) THEN members
             ELSE ("verification" :> DumpVerification(Val(rd.verification)))
                  @@ members)

(* json.dump(result_data, f, indent=2, default=str) (timestamp left out) *)
DumpResult(result_data) ==
    JObj([pipeline_id |-> JStr(result_data.pipeline_id),
          pipeline_name |-> JStr(result_data.pipeline_name),
          run_data |-> DumpRunData(result_data.run_data),
          verification_skipped |-> JBool(result_data.verification_skipped)])

(* json.load of the values of a result file. *)
LoadList(j) == [i \in 1..Len(j[2]) |-> j[2][i][2]]

LoadVerificationResult(j) ==
    [k \in DOMAIN j[2] |->
        CASE k \in {"model_name", "fqn", "passed"} -> j[2][k][2]
          [] k = "error_message" ->
                IF j[2][k] = JNull THEN <<>> ELSE j[2][k][2]
          [] k = "warnings" -> LoadList(j[2][k])
          [] OTHER -> LoadOpt(j[2][k])]

LoadVerification(j) ==
    [k \in DOMAIN j[2] |->
        IF k = "results"
        THEN [i \in 1..Len(j[2][k][2]) |->
                 LoadVerificationResult(j[2][k][2][i])]
        ELSE j[2][k][2]]

LoadRunData(j) ==
    [k \in (DOMAIN j[2]) \cup {"verification"} |->
        CASE k = "verification" ->
                IF k \in DOMAIN j[2] THEN Some(LoadVerification(j[2][k]))
                ELSE None
          [] k \in {"metrics", "query_metrics"} -> LoadMetrics(j[2][k])
          [] k \in {"executed_models", "fqn_models"} -> LoadList(j[2][k])
          [] OTHER -> j[2][k][2]]

LoadResultObject(text) ==
    [k \in DOMAIN text[2] |->
        IF k = "run_data" THEN LoadRunData(text[2][k]) ELSE text[2][k][2]]

(* save_result: True when the file was written, False when it could not be *)
(* opened.                                                                 *)
SaveResult(files, pipeline_id, result_data, save_ok) ==
    IF save_ok
    THEN [ret |-> TRUE,
          files |-> [files EXCEPT ![GetResultFilePath(pipeline_id)] =
                                      Some(DumpResult(result_data))]]
    ELSE [ret |-> FALSE, files |-> files]

(* load_result: None when the file is missing or does not parse. *)
LoadResult(files, pipeline_id) ==
    LET text == files[GetResultFilePath(pipeline_id)]
    IN  IF IsNone(text) \/ Val(text)[1] # "object" THEN None
        ELSE Some(LoadResultObject(Val(text)))

(* Mutant of step 1 of run_command: after a pipeline has failed the loop   *)
(* goes on with the next pipelines.                                        *)
RECURSIVE RunStepExecuteContinuing(_, _, _, _)
RunStepExecuteContinuing(pids, i, env, acc) ==
    IF i > Len(pids) THEN acc
    ELSE Bind(RunPipeline(pids[i], FALSE, env[pids[i]].dbt), LAMBDA out :
         IF out.raised \/ ~out.result.success
         THEN RunStepExecuteContinuing(pids, i + 1, env,
                  [acc EXCEPT !.ok = FALSE,
                              !.executed =
                                  Append(@, [pipeline_id |-> pids[i],
                                             success |-> FALSE])])
         ELSE RunStepExecuteContinuing(pids, i + 1, env,
                  [ok |-> acc.ok,
                   all_results |->
                       [acc.all_results EXCEPT ![pids[i]] = Some(out.result)],
                   warehouse |->
                       [acc.warehouse EXCEPT
                           ![PipelineTable(pids[i])] = env[pids[i]].table],
                   executed |->
                       Append(acc.executed,
                              [pipeline_id |-> pids[i], success |-> TRUE])]))

(* Step 1 of run_command, lines 275-302, from the i-th pipeline on: the    *)
(* loop returns with the first pipeline whose run_pipeline raises or       *)
(* reports no success.  A successful dbt run rebuilds the pipeline's       *)
(* table.  acc holds ok, all_results, the warehouse and the run_pipeline   *)
(* calls made so far, each with the pipeline and whether it succeeded.     *)
RECURSIVE RunStepExecute(_, _, _, _)
RunStepExecute(pids, i, env, acc) ==
    IF i > Len(pids) THEN acc
    ELSE Bind(RunPipeline(pids[i], FALSE, env[pids[i]].dbt), LAMBDA out :
         IF out.raised \/ ~out.result.success
         THEN [acc EXCEPT !.ok = FALSE,
                          !.executed =
                              Append(@, [pipeline_id |-> pids[i],
                                         success |-> FALSE])]
         ELSE RunStepExecute(pids, i + 1, env,
                  [ok |-> TRUE,
                   all_results |->
                       [acc.all_results EXCEPT ![pids[i]] = Some(out.result)],
                   warehouse |->
                       [acc.warehouse EXCEPT
                           ![PipelineTable(pids[i])] = env[pids[i]].table],
                   executed |->
                       Append(acc.executed,
                              [pipeline_id |-> pids[i], success |-> TRUE])]))

(* Mutant of step 2.5 of run_command: a refused connection does not end   *)
(* the command; the pipeline goes on without query metrics.                *)
RunStepQueryUnchecked(pid, run_data, final_models, env) ==
    Bind(FilterFqnModelsByFinalModels(run_data.fqn_models, final_models),
         LAMBDA filtered_models :
    IF final_models = <<>> \/ filtered_models = <<>> \/ ~env.qconnect_ok
    THEN [ok |-> TRUE, query_metrics |-> <<>>]
    ELSE Bind(ExecuteCountQueries(filtered_models, env.count_ok).successful,
              LAMBDA successful_models :
         IF successful_models = <<>>
         THEN [ok |-> TRUE, query_metrics |-> <<>>]
         ELSE [ok |-> TRUE,
               query_metrics |->
                   CollectMetricsByQueryIds(pid, successful_models,
                                            env.qcollect).metrics]))

(* Step 2.5 of run_command for one pipeline, lines 338-408: the query-time *)
(* metrics of the pipeline's final models.  ok is FALSE when the command   *)
(* returns EXIT_BENCHMARK_FAILED.                                          *)
RunStepQuery(pid, run_data, final_models, env) ==
    Bind(FilterFqnModelsByFinalModels(run_data.fqn_models, final_models),
         LAMBDA filtered_models :
    IF final_models = <<>> \/ filtered_models = <<>>
    THEN [ok |-> TRUE, query_metrics |-> <<>>]
    ELSE IF ~env.qconnect_ok
    THEN [ok |-> FALSE, query_metrics |-> <<>>]
    ELSE Bind(ExecuteCountQueries(filtered_models, env.count_ok).successful,
              LAMBDA successful_models :
         IF successful_models = <<>>
         THEN [ok |-> TRUE, query_metrics |-> <<>>]
         ELSE [ok |-> TRUE,
               query_metrics |->
                   CollectMetricsByQueryIds(pid, successful_models,
                                            env.qcollect).metrics]))

(* baseline_data.get('fingerprints', []) if baseline_data else [] *)
BaselineFingerprintsOf(baseline_data) ==
    IF IsSome(baseline_data) /\ Val(baseline_data) # <<>>
    THEN DictGet(Val(baseline_data), "fingerprints", <<>>)
    ELSE <<>>

(* Mutant of step 3 of run_command: the test of lines 449-450 is dropped,  *)
(* so a pipeline with failed models does not end the run.                  *)
RunStepVerifyLenient(pid, run_data, baselines, tables, env) ==
    Bind(LoadBaseline(baselines, GetPipelineName(pid)), LAMBDA loaded :
    IF loaded.raised
    THEN [ok |-> FALSE, raised |-> TRUE, verification |-> None]
    ELSE [ok |-> TRUE, raised |-> FALSE,
          verification |->
              Some(VerifyModels(pid, run_data.fqn_models,
                                BaselineFingerprintsOf(loaded.data),
                                env.verify_connect_ok, tables).summary)])

(* Step 3 of run_command for one pipeline, lines 419-456: ok is FALSE when *)
(* the command returns EXIT_VERIFICATION_FAILED, because fewer models      *)
(* passed than were verified or because load_baseline raised.              *)
RunStepVerify(pid, run_data, baselines, tables, env) ==
    Bind(LoadBaseline(baselines, GetPipelineName(pid)), LAMBDA loaded :
    IF loaded.raised
    THEN [ok |-> FALSE, raised |-> TRUE, verification |-> None]
    ELSE Bind(VerifyModels(pid, run_data.fqn_models,
                           BaselineFingerprintsOf(loaded.data),
                           env.verify_connect_ok, tables).summary,
              LAMBDA verification :
         [ok |-> ~(verification.passed_models < verification.total_models),
          raised |-> FALSE, verification |-> Some(verification)]))

(* The connections of step 2 of run_command, lines 311-329, from the i-th  *)
(* pipeline on: one collect_metrics call per pipeline on the collector's   *)
(* connection object.                                                      *)
RECURSIVE CollectConnections(_, _, _, _)
CollectConnections(pids, i, env, cw) ==
    IF i > Len(pids) THEN cw
    ELSE CollectConnections(pids, i + 1, env,
             CollectMetricsConnections(cw, pids[i], env[pids[i]].collect))

(* The connections of step 2.5 for one pipeline, lines 364-404: the count  *)
(* queries run on metrics_collector.sf_conn, which                         *)
(* collect_metrics_by_query_ids connects again before the finally clause   *)
(* of line 403 closes it.                                                  *)
RunStepQueryConnections(cw, pid, run_data, final_models, env) ==
    Bind(FilterFqnModelsByFinalModels(run_data.fqn_models, final_models),
         LAMBDA filtered_models :
    IF final_models = <<>> \/ filtered_models = <<>> THEN cw
    ELSE IF ~env.qconnect_ok
    THEN SfConnect(cw, "collector", "count", pid, FALSE)
    ELSE IF ~env.count_ok
    THEN SfClose(SfQueryFailed(
                     SfConnect(cw, "collector", "count", pid, TRUE),
                     "collector", "count", pid),
                 "collector", "count", pid)
    ELSE SfClose(
             CollectMetricsByQueryIdsConnections(
                 SfConnect(cw, "collector", "count", pid, TRUE), pid,
                 ExecuteCountQueries(filtered_models, env.count_ok).successful,
                 env.qcollect),
             "collector", "count", pid))

(* The connections of step 2.5 from the i-th pipeline on; the step ends    *)
(* with the first pipeline whose query[p].ok is FALSE.                     *)
RECURSIVE QueryConnections(_, _, _, _, _, _, _)
QueryConnections(pids, i, all_results, final_models, query, env, cw) ==
    IF i > Len(pids) THEN cw
    ELSE Bind(RunStepQueryConnections(cw, pids[i],
                                      Val(all_results[pids[i]]),
                                      final_models[pids[i]], env[pids[i]]),
              LAMBDA next :
         IF ~query[pids[i]].ok THEN next
         ELSE QueryConnections(pids, i + 1, all_results, final_models,
                               query, env, next))

(* The connections of step 3 from the i-th pipeline on, lines 418-456: no  *)
(* verify_models call when load_baseline raised; the step ends with the    *)
(* first pipeline whose verified[p].ok is FALSE.                           *)
RECURSIVE VerifyConnections(_, _, _, _, _)
VerifyConnections(pids, i, verified, env, cw) ==
    IF i > Len(pids) THEN cw
    ELSE IF verified[pids[i]].raised THEN cw
    ELSE Bind(VerifyModelsConnections(cw, pids[i],
                                      env[pids[i]].verify_connect_ok),
              LAMBDA next :
         IF ~verified[pids[i]].ok THEN next
         ELSE VerifyConnections(pids, i + 1, verified, env, next))

(* The pipelines verified before step 3 stops: all of them, or those up to *)
(* and including the first that fails.                                     *)
RECURSIVE VerifiedPrefix(_, _, _)
VerifiedPrefix(pids, i, verified) ==
    IF i > Len(pids) THEN <<>>
    ELSE IF verified[pids[i]].ok
         THEN <<pids[i]>> \o VerifiedPrefix(pids, i + 1, verified)
         ELSE <<pids[i]>>

(* What step 3 leaves to be seen: the summary of each pipeline verified.   *)
VerifiedSummaries(pids, verified) ==
    Bind(VerifiedPrefix(pids, 1, verified), LAMBDA prefix :
    [i \in 1..Len(prefix) |->
        [pipeline_id |-> prefix[i],
         raised |-> verified[prefix[i]].raised,
         verification |-> verified[prefix[i]].verification]])

(* The result_data of step 4, lines 465-471 (the timestamps left out). *)
ResultData(pid, run_data, metrics, query_metrics, verification, no_verify) ==
    [pipeline_id |-> pid,
     pipeline_name |-> GetPipelineName(pid),
     run_data |->
         [pipeline_id |-> run_data.pipeline_id,
          success |-> run_data.success,
          executed_models |-> run_data.executed_models,
          fqn_models |-> run_data.fqn_models,
          metrics |-> metrics,
          query_metrics |-> query_metrics,
          verification |-> IF no_verify THEN None ELSE verification],
     verification_skipped |-> no_verify]

(* Step 4 of run_command, lines 463-481, from the i-th requested pipeline  *)
(* on: save_result for each, stopping at the first failure.                *)
RECURSIVE RunStepSave(_, _, _, _, _)
RunStepSave(pids, i, env, result_data, acc) ==
    IF i > Len(pids) THEN acc
    ELSE Bind(SaveResult(acc.files, pids[i], result_data[pids[i]],
                         env[pids[i]].save_ok),
              LAMBDA out :
         IF ~out.ret THEN [acc EXCEPT !.ok = FALSE]
         ELSE RunStepSave(pids, i + 1, env, result_data,
                  [ok |-> TRUE, files |-> out.files,
                   written |-> Append(acc.written, pids[i])]))

(* The fingerprints save_baseline_command builds from a result file's      *)
(* verification, lines 537-550 (the timestamp of each left out).           *)
FingerprintsOfRun(run_data) ==
    LET verification == DictGet(run_data, "verification", None)
        results == IF IsNone(verification) THEN <<>>
                   ELSE DictGet(Val(verification), "results", <<>>)
    IN  [i \in 1..Len(results) |->
            [model_name |-> DictGet(results[i], "model_name", <<>>),
             fqn |-> DictGet(results[i], "fqn", <<>>),
             row_count |-> DictGet(results[i], "current_row_count", Some(0)),
             content_hash |-> DictGet(results[i], "current_hash", None)]]

(* What save_baseline meets: the clock, git, dbt, the user name, and how   *)
(* the write goes.                                                         *)
SaveEnv(timestamp, write) ==
    [timestamp |-> timestamp, git_commit |-> None,
     dbt_version |-> Some(<<"1.5.0">>), username |-> Some(<<"dev">>),
     write |-> write]

(* Mutant of the save-baseline loop body: the overwrite guard of lines     *)
(* 565-570 is dropped.                                                     *)
SaveBaselineOneUnguarded(results, baselines, pid, force, env) ==
    Bind(LoadResult(results, pid), LAMBDA result_data :
    IF IsNone(result_data) \/ Val(result_data) = <<>>
    THEN [exit_code |-> Some(EXIT_BENCHMARK_FAILED), baselines |-> baselines]
    ELSE Bind(DictGet(Val(result_data), "run_data", <<>>), LAMBDA run_data :
         IF DictGet(run_data, "metrics", <<>>) = <<>>
         THEN [exit_code |-> Some(EXIT_BENCHMARK_FAILED),
               baselines |-> baselines]
         ELSE Bind(SaveBaseline(baselines, GetPipelineName(pid),
                                DictGet(run_data, "metrics", <<>>),
                                DictGet(run_data, "query_metrics", <<>>),
                                FingerprintsOfRun(run_data), env),
                   LAMBDA saved :
              IF saved.raised \/ ~saved.ret
              THEN [exit_code |-> Some(EXIT_BENCHMARK_FAILED),
                    baselines |-> saved.files]
              ELSE [exit_code |-> None, baselines |-> saved.files])))

(* existing_baseline and not args.force, lines 553-570: the exit code the  *)
(* command returns with before saving, if any.  A baseline in the old      *)
(* format counts as existing under --force and is an error without it.     *)
ExistingBaselineExit(loaded, force) ==
    IF loaded.raised /\ ~force THEN Some(EXIT_BENCHMARK_FAILED)
    ELSE IF ~force /\ IsSome(loaded.data) /\ Val(loaded.data) # <<>>
    THEN Some(EXIT_INVALID_ARGUMENTS)
    ELSE None

(* The body of the loop of save_baseline_command, lines 508-589, for one   *)
(* pipeline: the exit code it returns with (None when the loop goes on)    *)
(* and the baselines directory afterwards.                                 *)
SaveBaselineOne(results, baselines, pid, force, env) ==
    Bind(LoadResult(results, pid), LAMBDA result_data :
    IF IsNone(result_data) \/ Val(result_data) = <<>>
    THEN [exit_code |-> Some(EXIT_BENCHMARK_FAILED), baselines |-> baselines]
    ELSE Bind(DictGet(Val(result_data), "run_data", <<>>), LAMBDA run_data :
         IF DictGet(run_data, "metrics", <<>>) = <<>>
         THEN [exit_code |-> Some(EXIT_BENCHMARK_FAILED),
               baselines |-> baselines]
         ELSE Bind(ExistingBaselineExit(
                       LoadBaseline(baselines, GetPipelineName(pid)), force),
                   LAMBDA existing :
              IF IsSome(existing)
              THEN [exit_code |-> existing, baselines |-> baselines]
              ELSE Bind(SaveBaseline(baselines, GetPipelineName(pid),
                                     DictGet(run_data, "metrics", <<>>),
                                     DictGet(run_data, "query_metrics", <<>>),
                                     FingerprintsOfRun(run_data), env),
                        LAMBDA saved :
                   IF saved.raised \/ ~saved.ret
                   THEN [exit_code |-> Some(EXIT_BENCHMARK_FAILED),
                         baselines |-> saved.files]
                   ELSE [exit_code |-> None, baselines |-> saved.files]))))

(* The loop of save_baseline_command from the i-th requested pipeline on.  *)
RECURSIVE SaveBaselineLoop(_, _, _, _, _, _)
SaveBaselineLoop(pids, i, results, force, env, acc) ==
    IF i > Len(pids) THEN acc
    ELSE Bind(SaveBaselineOne(results, acc.baselines, pids[i], force,
                              env[pids[i]]),
              LAMBDA one :
         IF IsSome(one.exit_code)
         THEN [exit_code |-> Val(one.exit_code),
               baselines |-> one.baselines, saved |-> acc.saved]
         ELSE SaveBaselineLoop(pids, i + 1, results, force, env,
                  [exit_code |-> EXIT_SUCCESS,
                   baselines |-> one.baselines,
                   saved |-> Append(acc.saved, pids[i])]))

(* save_baseline_command: the exit code, the baselines directory           *)
(* afterwards and the pipelines whose baseline was saved.                  *)
SaveBaselineCommand(results, baselines, pipeline_arg, force, env) ==
    Bind(NormalizePipelineId(pipeline_arg), LAMBDA norm :
    IF norm.raised
    THEN [exit_code |-> EXIT_INVALID_ARGUMENTS, baselines |-> baselines,
          saved |-> <<>>]
    ELSE SaveBaselineLoop(PipelinesOf(norm.id), 1, results, force, env,
             [exit_code |-> EXIT_SUCCESS, baselines |-> baselines,
              saved |-> <<>>]))

(* The verification status compare_command derives, lines 669-672. *)
VerificationStatus(result_data) ==
    LET verification ==
            DictGet(DictGet(result_data, "run_data", <<>>),
                    "verification", None)
        failed_models == IF IsNone(verification) THEN 0
                         ELSE DictGet(Val(verification), "failed_models", 0)
    IN  IF DictGet(result_data, "verification_skipped", FALSE) THEN "skipped"
        ELSE IF failed_models = 0 THEN "passed"
        ELSE "failed"

(* The body of the loop of compare_command, lines 628-709, for one         *)
(* pipeline: None when the command returns EXIT_BENCHMARK_FAILED, else the *)
(* comparison.                                                             *)
CompareOne(results, baselines, pid, cost_config) ==
    Bind(LoadResult(results, pid), LAMBDA result_data :
    IF IsNone(result_data) \/ Val(result_data) = <<>> THEN None
    ELSE Bind(LoadBaseline(baselines, GetPipelineName(pid)), LAMBDA loaded :
         IF loaded.raised THEN None
         ELSE IF IsNone(loaded.data) \/ Val(loaded.data) = <<>> THEN None
         ELSE IF ~ValidateBaseline(loaded.data).valid THEN None
         ELSE Bind(DictGet(Val(result_data), "run_data", <<>>),
                   LAMBDA run_data :
              Some(CompareMetrics(
                       DictGet(Val(loaded.data), "build_metrics", <<>>),
                       DictGet(run_data, "metrics", <<>>),
                       GetPipelineName(pid),
                       VerificationStatus(Val(result_data)),
                       Some(DictGet(Val(loaded.data), "query_metrics", <<>>)),
                       Some(DictGet(run_data, "query_metrics", <<>>)),
                       cost_config)))))

(* any(c.is_regression for c in comparison.comparisons) *)
HasRegression(comparison) ==
    \E k \in 1..Len(comparison.comparisons) :
        comparison.comparisons[k].is_regression

(* The loop of compare_command from the i-th requested pipeline on.        *)
(* report_ok[pid] tells whether generate_report can write the report;      *)
(* reports lists the generate_report calls, each with the pipeline name of *)
(* its comparison and whether the report file was written.                 *)
RECURSIVE CompareLoop(_, _, _, _, _, _, _)
CompareLoop(pids, i, results, baselines, cost_config, report_ok, acc) ==
    IF i > Len(pids) THEN acc
    ELSE Bind(CompareOne(results, baselines, pids[i], cost_config),
              LAMBDA one :
         IF IsNone(one) THEN [acc EXCEPT !.ok = FALSE]
         ELSE CompareLoop(pids, i + 1, results, baselines, cost_config,
                  report_ok,
                  [ok |-> TRUE,
                   all_comparisons |-> Append(acc.all_comparisons, Val(one)),
                   reports |->
                       Append(acc.reports,
                              [pipeline_name |-> Val(one).pipeline_name,
                               written |-> report_ok[pids[i]]]),
                   has_regressions |->
                       acc.has_regressions \/ HasRegression(Val(one))]))

(* Mutant of generate_aggregated_report: the pipelines with a warning are  *)
(* counted, instead of the warnings.                                       *)
TotalRegressionsByPipeline(all_comparisons) ==
    Cardinality({ i \in 1..Len(all_comparisons) :
                    all_comparisons[i].warnings # <<>> })

(* The sum of len(comp.warnings) over the comparisons. *)
RECURSIVE TotalRegressions(_)
TotalRegressions(all_comparisons) ==
    IF all_comparisons = <<>> THEN 0
    ELSE Len(Head(all_comparisons).warnings)
         + TotalRegressions(Tail(all_comparisons))

(* The pipeline names of a list of comparisons. *)
NamesOf(all_comparisons) ==
    [i \in 1..Len(all_comparisons) |-> all_comparisons[i].pipeline_name]

(* generate_aggregated_report, lines 754-814: what the aggregated report   *)
(* holds (one entry per comparison, kept by its pipeline name) and whether *)
(* the file was written.                                                   *)
GenerateAggregatedReport(pipeline_comparisons, aggregate_ok) ==
    [written |-> aggregate_ok,
     pipeline_count |-> Len(pipeline_comparisons),
     pipelines |-> NamesOf(pipeline_comparisons),
     total_regressions |-> TotalRegressions(pipeline_comparisons)]

(* Mutant of compare_command: the aggregated report is generated for a     *)
(* single comparison as well.                                              *)
CompareCommandAggregatesOne(results, baselines, pipeline_arg, cost_config, report_ok, aggregate_ok) ==
    Bind(NormalizePipelineId(pipeline_arg), LAMBDA norm :
    IF norm.raised
    THEN [exit_code |-> EXIT_INVALID_ARGUMENTS, all_comparisons |-> <<>>,
          reports |-> <<>>, aggregated |-> None, has_regressions |-> FALSE]
    ELSE Bind(CompareLoop(PipelinesOf(norm.id), 1, results, baselines,
                          cost_config, report_ok,
                          [ok |-> TRUE, all_comparisons |-> <<>>,
                           reports |-> <<>>, has_regressions |-> FALSE]),
              LAMBDA loop :
        IF ~loop.ok
        THEN [exit_code |-> EXIT_BENCHMARK_FAILED,
              all_comparisons |-> loop.all_comparisons,
              reports |-> loop.reports, aggregated |-> None,
              has_regressions |-> loop.has_regressions]
        ELSE [exit_code |-> EXIT_SUCCESS,
              all_comparisons |-> loop.all_comparisons,
              reports |-> loop.reports,
              aggregated |->
                  IF Len(loop.all_comparisons) > 0
                  THEN Some(GenerateAggregatedReport(loop.all_comparisons,
                                                     aggregate_ok))
                  ELSE None,
              has_regressions |-> loop.has_regressions]))

(* Mutant of compare_command: a regression in any comparison makes the    *)
(* command return EXIT_BENCHMARK_FAILED.                                   *)
CompareCommandFailingOnRegression(results, baselines, pipeline_arg, cost_config, report_ok, aggregate_ok) ==
    Bind(CompareCommandAggregatesOne(results, baselines, pipeline_arg,
                                     cost_config, report_ok, aggregate_ok),
         LAMBDA out :
    [exit_code |->
         IF out.exit_code = EXIT_SUCCESS /\ out.has_regressions
         THEN EXIT_BENCHMARK_FAILED ELSE out.exit_code,
     all_comparisons |-> out.all_comparisons,
     reports |-> out.reports,
     aggregated |->
         IF Len(out.all_comparisons) > 1 THEN out.aggregated ELSE None,
     has_regressions |-> out.has_regressions])

(* compare_command: the exit code, the comparisons made, the               *)
(* generate_report calls, and the generate_aggregated_report call if there *)
(* was one.                                                                *)
CompareCommand(results, baselines, pipeline_arg, cost_config, report_ok, aggregate_ok) ==
    Bind(NormalizePipelineId(pipeline_arg), LAMBDA norm :
    IF norm.raised
    THEN [exit_code |-> EXIT_INVALID_ARGUMENTS, all_comparisons |-> <<>>,
          reports |-> <<>>, aggregated |-> None, has_regressions |-> FALSE]
    ELSE Bind(CompareLoop(PipelinesOf(norm.id), 1, results, baselines,
                          cost_config, report_ok,
                          [ok |-> TRUE, all_comparisons |-> <<>>,
                           reports |-> <<>>, has_regressions |-> FALSE]),
              LAMBDA loop :
        IF ~loop.ok
        THEN [exit_code |-> EXIT_BENCHMARK_FAILED,
              all_comparisons |-> loop.all_comparisons,
              reports |-> loop.reports, aggregated |-> None,
              has_regressions |-> loop.has_regressions]
        ELSE [exit_code |-> EXIT_SUCCESS,
              all_comparisons |-> loop.all_comparisons,
              reports |-> loop.reports,
              aggregated |->
                  IF Len(loop.all_comparisons) > 1
                  THEN Some(GenerateAggregatedReport(loop.all_comparisons,
                                                     aggregate_ok))
                  ELSE None,
              has_regressions |-> loop.has_regressions]))

(***************************************************************************)
(* Output verification on its own: the inputs of one verify_models call    *)
(* are drawn at the start, the call is one step.                           *)
(***************************************************************************)
VARIABLES
    v_fqns,       \* model_fqns
    v_baseline,   \* baseline_fingerprints
    v_connect,    \* the outcome of sf_conn.connect()
    v_tables,     \* the warehouse's answers per fqn
    v_out         \* None, or Some(what verify_models returned)

verifyVars == <<v_fqns, v_baseline, v_connect, v_tables, v_out>>

VerifyModelNames == {"M1", "M2"}
VerifyFqns == <<Fqn("M1"), Fqn("M2")>>

(* Baseline fingerprint dictionaries: keyed by fqn or, with an empty fqn,  *)
(* by model name; row_count may be null, content_hash may be null; and the *)
(* dictionaries a hand-written file may hold, with keys missing.           *)
BaselineDicts ==
    UNION {
        { [model_name |-> <<m>>, fqn |-> f, row_count |-> rc, content_hash |-> h] :
            f \in {<<>>, Fqn(m)},
            rc \in {None} \cup {Some(n) : n \in 0..MaxRows},
            h \in {None} \cup {Some(x) : x \in HashVals} }
        \cup { [model_name |-> <<m>>, fqn |-> Fqn(m)] }
      : m \in VerifyModelNames }

SeqsUpTo(S, n) == UNION { [1..k -> S] : k \in 0..n }

VerifyInputs ==
    /\ v_fqns = VerifyFqns
    /\ v_baseline \in SeqsUpTo(BaselineDicts, MaxBaseline)
    /\ v_connect \in BOOLEAN
    /\ v_tables \in [{VerifyFqns[i] : i \in 1..Len(VerifyFqns)} -> TableStates]
    /\ v_out = None

VerifyModelsCall ==
    /\ v_out = None
    /\ v_out' = Some(VerifyModels("A", v_fqns, v_baseline, v_connect, v_tables))
    /\ UNCHANGED <<v_fqns, v_baseline, v_connect, v_tables>>

VerifyIdle ==
    /\ v_fqns = <<>> /\ v_baseline = <<>>
    /\ v_connect = FALSE /\ v_tables = <<>> /\ v_out = None

(***************************************************************************)
(* The comparison engine on its own: the inputs of one compare_metrics     *)
(* call are drawn at the start, the call is one step.                      *)
(***************************************************************************)
VARIABLES
    r_base,       \* baseline_metrics
    r_cur,        \* current_metrics
    r_qbase,      \* baseline_query_metrics (Optional)
    r_qcur,       \* current_query_metrics (Optional)
    r_cost,       \* what _load_cost_config returns
    r_out         \* None, or Some(what compare_metrics returned)

reportVars == <<r_base, r_cur, r_qbase, r_qcur, r_cost, r_out>>

(* An execution time of 30 s, below the billing minimum. *)
HalfMinuteMs == (MinBillableSeconds * 1000) \div 2

(* Execution times: small ones, and two large neighbours past the billing  *)
(* minimum whose relative difference is below the rounding step.           *)
TimeVals == (0..MaxMetric) \cup {HalfMinuteMs, BigMetric, BigMetric + 1}

(* Metrics dicts as the collector aggregates them, and the empty dict.     *)
BuildMetricDicts ==
    { <<>> } \cup
    { [total_execution_time_ms |-> t, total_bytes_scanned |-> b,
       total_rows_produced |-> r] :
        t \in TimeVals, b \in 0..MaxMetric, r \in 0..MaxMetric }

QueryMetricDicts ==
    { <<>> } \cup
    { [total_execution_time_ms |-> t, total_bytes_scanned |-> 1,
       total_rows_produced |-> 1] : t \in TimeVals }

ReportInputs ==
    /\ r_base \in BuildMetricDicts
    /\ r_cur \in BuildMetricDicts
    /\ r_qbase \in {None} \cup {Some(d) : d \in QueryMetricDicts}
    /\ r_qcur \in {None} \cup {Some(d) : d \in QueryMetricDicts}
    /\ r_cost \in CostConfigs
    /\ r_out = None

ReportIdle ==
    /\ r_base = <<>> /\ r_cur = <<>>
    /\ r_qbase = None /\ r_qcur = None
    /\ r_cost = None /\ r_out = None

CompareMetricsCall ==
    /\ r_out = None
    /\ r_out' = Some(CompareMetrics(r_base, r_cur, "A", "", r_qbase, r_qcur,
                                    r_cost))
    /\ UNCHANGED <<r_base, r_cur, r_qbase, r_qcur, r_cost>>

(***************************************************************************)
(* The baseline store on its own: save, load and clear calls in any order  *)
(* on a directory that may already hold files.                             *)
(***************************************************************************)
VARIABLES
    b_files,      \* the baselines directory: path -> None or file text
    b_clock,      \* the number of save calls so far (the clock they read)
    b_write,      \* None, or the latest save_baseline / clear_baseline call
                  \* (with what it was given, if it wrote the file)
    b_load        \* None, or the latest load_baseline call after b_write

baselineVars == <<b_files, b_clock, b_write, b_load>>

(* datetime.now(timezone.utc).isoformat() at clock n *)
Timestamp(n) == <<"T", n>>

PipelineNames == { <<"Pipeline", " ", "A">>, <<"Pipeline", " ", "B">> }

BaselinePaths == { GetBaselineFilePath(n) : n \in PipelineNames }

(* A baseline written by an older benchmark.py. *)
LegacyBaselineText ==
    JObj([pipeline_name |-> JStr(<<"Pipeline", " ", "A">>),
          metrics |-> JObj([total_execution_time_ms |-> JNum(1)])])

InitialFileTexts ==
    { None, Some(Garbage), Some(LegacyBaselineText), Some(JObj(<<>>)) }

StoreMetricDicts ==
    { [total_execution_time_ms |-> t, total_bytes_scanned |-> 1,
       total_rows_produced |-> 1] : t \in {0, BigMetric} }

StoreFingerprintLists ==
    { <<>>,
      <<[model_name |-> <<"M1">>, fqn |-> Fqn("M1"),
         row_count |-> None, content_hash |-> Some(11)]>>,
      <<[model_name |-> <<"M1">>, fqn |-> Fqn("M1"),
         row_count |-> Some(1), content_hash |-> None]>> }

SaveEnvs(clock) ==
    [timestamp : {Timestamp(clock)},
     git_commit : {None},
     dbt_version : {Some(<<"1.5.0">>)},
     username : {Some(<<"dev">>)},
     write : {"ok", "open_fails", "write_fails"}]

BaselineStoreStart ==
    /\ b_files \in [BaselinePaths -> InitialFileTexts]
    /\ b_clock = 0
    /\ b_write = None
    /\ b_load = None

BaselineStoreIdle ==
    /\ b_files = <<>> /\ b_clock = 0 /\ b_write = None /\ b_load = None

SaveBaselineCall ==
    /\ b_clock < MaxSaves
    /\ \E n \in PipelineNames \cup {<<>>},
          bm \in StoreMetricDicts, qm \in {<<>>} \cup StoreMetricDicts,
          fps \in StoreFingerprintLists, env \in SaveEnvs(b_clock + 1) :
          LET out == SaveBaseline(b_files, n, bm, qm, fps, env)
          IN  /\ b_files' = out.files
              /\ b_write' =
                    Some([op |-> "save", pipeline_name |-> n,
                          raised |-> out.raised, ret |-> out.ret,
                          given |->
                              IF out.ret
                              THEN Some([build_metrics |-> bm,
                                         query_metrics |-> qm,
                                         fingerprints |-> fps,
                                         timestamp |-> env.timestamp])
                              ELSE None])
    /\ b_clock' = b_clock + 1
    /\ b_load' = None

LoadBaselineCall ==
    /\ \E n \in PipelineNames :
          LET out == LoadBaseline(b_files, n)
          IN  b_load' = Some([pipeline_name |-> n, raised |-> out.raised,
                              error_msg |-> out.error_msg,
                              data |-> out.data,
                              valid |-> ValidateBaseline(out.data).valid])
    /\ UNCHANGED <<b_files, b_clock, b_write>>

ClearBaselineCall ==
    /\ \E n \in PipelineNames, unlink_ok \in BOOLEAN :
          LET out == ClearBaseline(b_files, n, unlink_ok)
          IN  /\ b_files' = out.files
              /\ b_write' = Some([op |-> "clear", pipeline_name |-> n,
                                  raised |-> FALSE, ret |-> out.ret,
                                  given |-> None])
    /\ b_load' = None
    /\ UNCHANGED b_clock

(***************************************************************************)
(* The benchmark CLI: run, save-baseline and compare commands in any       *)
(* order.  Each command is one step; what it meets outside the program     *)
(* (dbt, the warehouse's query history, the file system) is drawn per      *)
(* command.                                                                *)
(***************************************************************************)
VARIABLES
    warehouse,      \* table fqn -> the table as the warehouse answers for it
    resultFiles,    \* the results directory: path -> None or file text
    baselineFiles,  \* the baselines directory: path -> None or file text
    finalModels,    \* benchmark_config.yml: pipeline -> its final models
    costConfig,     \* benchmark_config.yml: what _load_cost_config returns
    cmdCount,       \* the number of commands run so far
    last            \* None, or the latest command and its outcome

benchVars == <<warehouse, resultFiles, baselineFiles, finalModels,
               costConfig, cmdCount, last>>

ResultPaths == { GetResultFilePath(p) : p \in PipelineIds }

AllBaselinePaths == { GetBaselineFilePath(GetPipelineName(p)) : p \in PipelineIds }

(* A table that does not exist: no query on it answers. *)
NoTable == [count |-> None, hash_agg |-> None, sum_hash |-> None]

(* A table as dbt run builds it. *)
Table(rows, hash) ==
    [count |-> Some(rows),
     hash_agg |-> IF rows = 0 THEN None ELSE Some(hash),
     sum_hash |-> None]

(* The elapsed times QUERY_HISTORY reports for a build. *)
BuildTimes == {1, 2}

(* A QUERY_HISTORY row. *)
HistoryRow(query_id, target, elapsed) ==
    [QUERY_ID |-> query_id, target |-> target,
     TOTAL_ELAPSED_TIME |-> Some(elapsed), BYTES_SCANNED |-> Some(1),
     ROWS_PRODUCED |-> Some(1)]

(* What the steps of one pipeline meet when nothing goes wrong. *)
DefaultEnv(p, elapsed, table) ==
    [dbt |-> [raises |-> FALSE, compile_ok |-> TRUE, run_ok |-> TRUE,
              compile_output |-> "compile output",
              run_output |-> "run output",
              manifest |-> <<PipelineModel(p)>>],
     table |-> table,
     collect |-> [connect_ok |-> TRUE,
                  history |-> <<HistoryRow(<<"ddl", p>>,
                                           Upper(PipelineModel(p)),
                                           elapsed)>>],
     qconnect_ok |-> TRUE,
     count_ok |-> TRUE,
     qcollect |-> [connect_ok |-> TRUE,
                   history |-> <<HistoryRow(<<"qid", PipelineModel(p)>>,
                                            "SELECT", elapsed)>>],
     verify_connect_ok |-> TRUE,
     save_ok |-> TRUE]

Faults ==
    {"dbt_raises", "compile_fails", "run_fails", "no_manifest",
     "connect_fails", "history_fails", "null_counters", "qconnect_fails",
     "count_fails",
     "qcollect_fails", "verify_connect_fails", "save_fails"}

LeanFaults == {"run_fails", "verify_connect_fails", "save_fails"}

(* The same, with one thing going wrong. *)
Fault(f, env) ==
    CASE f = "dbt_raises" -> [env EXCEPT !.dbt.raises = TRUE]
      [] f = "compile_fails" -> [env EXCEPT !.dbt.compile_ok = FALSE]
      [] f = "run_fails" -> [env EXCEPT !.dbt.run_ok = FALSE]
      [] f = "no_manifest" -> [env EXCEPT !.dbt.manifest = <<>>]
      [] f = "connect_fails" -> [env EXCEPT !.collect.connect_ok = FALSE]
      [] f = "history_fails" -> [env EXCEPT !.collect.history = <<>>]
      [] f = "null_counters" ->
            [env EXCEPT !.collect.history =
                [i \in 1..Len(@) |->
                    [@[i] EXCEPT !.TOTAL_ELAPSED_TIME = None,
                                 !.ROWS_PRODUCED = None]]]
      [] f = "qconnect_fails" -> [env EXCEPT !.qconnect_ok = FALSE]
      [] f = "count_fails" -> [env EXCEPT !.count_ok = FALSE]
      [] f = "qcollect_fails" -> [env EXCEPT !.qcollect.connect_ok = FALSE]
      [] f = "verify_connect_fails" ->
            [env EXCEPT !.verify_connect_ok = FALSE]
      [] f = "save_fails" -> [env EXCEPT !.save_ok = FALSE]

CalmEnv == [p \in PipelineIds |-> DefaultEnv(p, 1, Table(1, 11))]

(* A single pipeline is run under every outcome: a slower build, other    *)
(* rows, no rows, or one fault.                                            *)
RichEnvs(p) ==
    { DefaultEnv(p, t, Table(1, 11)) : t \in BuildTimes }
    \cup { DefaultEnv(p, 1, Table(1, 22)), DefaultEnv(p, 1, Table(0, 11)) }
    \cup { Fault(f, DefaultEnv(p, 1, Table(1, 11))) : f \in Faults }

(* Among several pipelines, one meets one of a few faults. *)
LeanEnvs(p) ==
    { Fault(f, DefaultEnv(p, 1, Table(1, 11))) : f \in LeanFaults }

RunArgs == {"a", "B", "all", "x"}

RunEnvs(pipeline_arg) ==
    CASE pipeline_arg = "a" ->
            { [CalmEnv EXCEPT !["A"] = e] : e \in RichEnvs("A") }
      [] pipeline_arg = "B" ->
            { CalmEnv } \cup
            { [CalmEnv EXCEPT !["B"] = e] : e \in LeanEnvs("B") }
      [] pipeline_arg = "all" ->
            { CalmEnv } \cup
            UNION { { [CalmEnv EXCEPT ![p] = e] : e \in LeanEnvs(p) } :
                    p \in PipelineIds }
      [] OTHER -> { CalmEnv }

(* How the write of each baseline file goes. *)
WriteEnvs ==
    { [p \in PipelineIds |-> "ok"],
      [p \in PipelineIds |-> "open_fails"],
      [p \in PipelineIds |-> IF p = "B" THEN "write_fails" ELSE "ok"] }

(* Whether each report file can be written. *)
ReportEnvs ==
    { [report |-> [p \in PipelineIds |-> TRUE], aggregate |-> TRUE],
      [report |-> [p \in PipelineIds |-> p # "A"], aggregate |-> TRUE],
      [report |-> [p \in PipelineIds |-> TRUE], aggregate |-> FALSE] }

(* benchmark_config.yml names a final model for A and B, none for C. *)
FinalModelConfig ==
    [p \in PipelineIds |-> IF p = "C" THEN <<>> ELSE <<PipelineModel(p)>>]

(* A baseline of pipeline A saved with the fingerprint of its table. *)
SeededBaselineText ==
    DumpBaseline(
        BaselineDataToDict(
            GetPipelineName("A"), MetricsResult(1, 1, 1), <<>>,
            <<[model_name |-> <<"FACT_A">>, fqn |-> PipelineTable("A"),
               row_count |-> Some(1), content_hash |-> Some(11)]>>,
            BaselineMetadataToDict(Timestamp(0), None, None, None)))

BenchStart ==
    /\ warehouse = [p \in { PipelineTable(q) : q \in PipelineIds } |-> NoTable]
    /\ resultFiles = [f \in ResultPaths |-> None]
    /\ baselineFiles \in
          { [f \in AllBaselinePaths |->
                IF f = GetBaselineFilePath(GetPipelineName("A")) THEN t
                ELSE None] : t \in {None, Some(LegacyBaselineText),
                          Some(SeededBaselineText)} }
    /\ finalModels = FinalModelConfig
    /\ costConfig \in {None, Some([enabled |-> TRUE])}
    /\ cmdCount = 0
    /\ last = None

BenchIdle ==
    /\ warehouse = <<>> /\ resultFiles = <<>> /\ baselineFiles = <<>>
    /\ finalModels = <<>> /\ costConfig = None /\ cmdCount = 0
    /\ last = None

(* What a command leaves to be seen: its arguments, its exit code, and     *)
(* what it produced.                                                       *)
Outcome(cmd, pipeline, flag, exit_code, failed_step, executed, connections, verified, written, comparisons, reports, aggregated) ==
    [cmd |-> cmd, pipeline |-> pipeline, flag |-> flag,
     exit_code |-> exit_code, failed_step |-> failed_step,
     executed |-> executed, connections |-> connections,
     verified |-> verified, written |-> written,
     comparisons |-> comparisons, reports |-> reports,
     aggregated |-> aggregated]

(* run_command returns: the exit code, and what the command leaves. *)
RunReturn(pipeline_arg, no_verify, exit_code, failed_step, executed, connections, verified, written, results, tables) ==
    /\ resultFiles' = results
    /\ warehouse' = tables
    /\ last' = Some(Outcome("run", pipeline_arg, no_verify, exit_code,
                            failed_step, executed, connections, verified,
                            written, <<>>, <<>>, None))

(* Steps 2 to 4 of run_command, lines 304-484, after step 1 has run every  *)
(* requested pipeline.                                                     *)
RunAfterExecute(pipeline_arg, no_verify, env, pids, step1) ==
    \E metrics \in
        { [p \in Range(pids) |->
              CollectMetrics(p, Val(step1.all_results[p]).executed_models,
                             Val(step1.all_results[p]).fqn_models,
                             env[p].collect).metrics] } :
    \E cw2 \in { CollectConnections(pids, 1, env, NoConnections) } :
    \E query \in
        { [p \in Range(pids) |->
              RunStepQuery(p, Val(step1.all_results[p]), finalModels[p],
                           env[p])] } :
    \E cw25 \in
        { QueryConnections(pids, 1, step1.all_results, finalModels, query,
                           env, cw2) } :
      IF \E p \in Range(pids) : ~query[p].ok
      THEN RunReturn(pipeline_arg, no_verify, EXIT_BENCHMARK_FAILED, "query",
                     step1.executed, cw25.events, <<>>, <<>>, resultFiles,
                     step1.warehouse)
      ELSE
    \E verified \in
        { [p \in Range(pids) |->
              IF no_verify
              THEN [ok |-> TRUE, raised |-> FALSE, verification |-> None]
              ELSE RunStepVerify(p, Val(step1.all_results[p]), baselineFiles,
                                 step1.warehouse, env[p])] } :
    \E summaries \in
        { IF no_verify THEN <<>> ELSE VerifiedSummaries(pids, verified) } :
    \E cw3 \in
        { IF no_verify THEN cw25
          ELSE VerifyConnections(pids, 1, verified, env, cw25) } :
      IF \E p \in Range(pids) : ~verified[p].ok
      THEN RunReturn(pipeline_arg, no_verify, EXIT_VERIFICATION_FAILED,
                     "verify", step1.executed, cw3.events, summaries, <<>>,
                     resultFiles, step1.warehouse)
      ELSE
    \E result_data \in
        { [p \in Range(pids) |->
              ResultData(p, Val(step1.all_results[p]), metrics[p],
                         query[p].query_metrics, verified[p].verification,
                         no_verify)] } :
    \E step4 \in
        { RunStepSave(pids, 1, env, result_data,
                      [ok |-> TRUE, files |-> resultFiles,
                       written |-> <<>>]) } :
      RunReturn(pipeline_arg, no_verify,
                IF step4.ok THEN EXIT_SUCCESS ELSE EXIT_BENCHMARK_FAILED,
                IF step4.ok THEN "none" ELSE "save",
                step1.executed, cw3.events,
                summaries, step4.written, step4.files, step1.warehouse)

(* benchmark.py run --pipeline <arg> [--no-verify]: run_command, lines     *)
(* 250-484.  A successful dbt run rebuilds the pipeline's table.           *)
RunCommandCall ==
    /\ cmdCount < MaxCommands
    /\ \E pipeline_arg \in RunArgs, no_verify \in BOOLEAN :
       \E env \in RunEnvs(pipeline_arg),
          norm \in { NormalizePipelineId(pipeline_arg) } :
         IF norm.raised
         THEN RunReturn(pipeline_arg, no_verify, EXIT_INVALID_ARGUMENTS,
                        "arguments", <<>>, <<>>, <<>>, <<>>, resultFiles,
                        warehouse)
         ELSE
       \E pids \in { PipelinesOf(norm.id) } :
       \E step1 \in
           { RunStepExecute(pids, 1, env,
                            [ok |-> TRUE,
                             all_results |-> [p \in PipelineIds |-> None],
                             warehouse |-> warehouse,
                             executed |-> <<>>]) } :
         IF ~step1.ok
         THEN RunReturn(pipeline_arg, no_verify, EXIT_BENCHMARK_FAILED,
                        "execute", step1.executed, <<>>, <<>>, <<>>,
                        resultFiles, step1.warehouse)
         ELSE RunAfterExecute(pipeline_arg, no_verify, env, pids, step1)
    /\ cmdCount' = cmdCount + 1
    /\ UNCHANGED <<baselineFiles, finalModels, costConfig>>

(* benchmark.py save-baseline --pipeline <arg> [--force] *)
SaveBaselineCommandCall ==
    /\ cmdCount < MaxCommands
    /\ \E pipeline_arg \in RunArgs, force \in BOOLEAN, write \in WriteEnvs :
       \E out \in
           { SaveBaselineCommand(
                 resultFiles, baselineFiles, pipeline_arg, force,
                 [p \in PipelineIds |->
                     SaveEnv(Timestamp(cmdCount), write[p])]) } :
              /\ baselineFiles' = out.baselines
              /\ last' = Some(Outcome("save-baseline", pipeline_arg, force,
                                      out.exit_code, "", <<>>, <<>>, <<>>,
                                      out.saved, <<>>, <<>>, None))
    /\ cmdCount' = cmdCount + 1
    /\ UNCHANGED <<warehouse, resultFiles, finalModels, costConfig>>

(* benchmark.py compare --pipeline <arg> *)
CompareCommandCall ==
    /\ cmdCount < MaxCommands
    /\ \E pipeline_arg \in RunArgs, env \in ReportEnvs :
       \E out \in
           { CompareCommand(resultFiles, baselineFiles, pipeline_arg,
                            costConfig, env.report, env.aggregate) } :
              last' = Some(Outcome("compare", pipeline_arg, FALSE,
                                   out.exit_code, "", <<>>, <<>>, <<>>, <<>>,
                                   out.all_comparisons, out.reports,
                                   out.aggregated))
    /\ cmdCount' = cmdCount + 1
    /\ UNCHANGED <<warehouse, resultFiles, baselineFiles, finalModels,
                   costConfig>>

(***************************************************************************)
(* One call of run_pipeline: the inputs are drawn at the start, the call   *)
(* leaves what it returned and the dbt phases it invoked.                  *)
(***************************************************************************)
VARIABLES
    p_in,         \* pipeline_id, compile_only and what dbt does
    p_out         \* None, or Some(what run_pipeline returned)

pipeVars == <<p_in, p_out>>

(* The text a dbt process leaves on stdout and stderr. *)
DbtOutputs == {"", "Compilation Error", "Database Error"}

(* What a call can meet. *)
DbtOutcomes ==
    [raises : BOOLEAN, compile_ok : BOOLEAN, run_ok : BOOLEAN,
     compile_output : DbtOutputs, run_output : DbtOutputs,
     manifest : {<<>>, <<"fact_a">>}]

PipelineInputs ==
    /\ p_in \in [pipeline_id : {"A", "B", "C", "all", "D"},
                 compile_only : BOOLEAN,
                 dbt : DbtOutcomes]
    /\ p_out = None

PipelineIdle ==
    /\ p_in = <<>>
    /\ p_out = None

RunPipelineCall ==
    /\ IsNone(p_out)
    /\ p_out' = Some(RunPipeline(p_in.pipeline_id, p_in.compile_only, p_in.dbt))
    /\ UNCHANGED p_in

(***************************************************************************)
(* One call of collect_metrics or of collect_metrics_by_query_ids: the     *)
(* executed models and what the warehouse answers are drawn at the start.  *)
(***************************************************************************)
VARIABLES
    c_in,         \* executed_models, connect_ok and the QUERY_HISTORY rows
    c_out         \* None, or Some(the call made and what it returned)

collectVars == <<c_in, c_out>>

(* The longest QUERY_HISTORY drawn. *)
MaxHistory == 2

(* The values of a QUERY_HISTORY counter: NULL or a number. *)
ElapsedVals == {None, Some(1), Some(2)}
BytesVals == {None, Some(3)}
RowsVals == {None, Some(5)}

(* The statements of the history: the DDL that builds a model, and the     *)
(* row-count query on it. *)
HistoryStatements ==
    { [QUERY_ID |-> <<"ddl", m>>, target |-> Upper(m)] :
          m \in {"fact_a", "fact_b"} }
    \cup { [QUERY_ID |-> <<"qid", m>>, target |-> "SELECT"] :
          m \in {"fact_a", "fact_b"} }

HistoryRows ==
    { [QUERY_ID |-> st.QUERY_ID, target |-> st.target,
       TOTAL_ELAPSED_TIME |-> e, BYTES_SCANNED |-> b, ROWS_PRODUCED |-> r] :
          st \in HistoryStatements, e \in ElapsedVals, b \in BytesVals,
          r \in RowsVals }

(* A model may be built more than once; a row-count query has its own id. *)
Histories ==
    { h \in SeqsUpTo(HistoryRows, MaxHistory) :
        \A i, j \in DOMAIN h :
            (i # j /\ h[i].target = "SELECT") => h[i].QUERY_ID # h[j].QUERY_ID }

ExecutedModelLists ==
    {<<>>, <<"fact_a">>, <<"fact_b">>, <<"fact_a", "fact_b">>,
     <<"fact_b", "fact_a">>}

CollectInputs ==
    /\ c_in \in [executed_models : ExecutedModelLists,
                 connect_ok : BOOLEAN,
                 history : Histories]
    /\ c_out = None

CollectIdle ==
    /\ c_in = <<>>
    /\ c_out = None

(* What execute_count_queries hands on for the executed models. *)
QueryResultsOf(executed_models) ==
    ExecuteCountQueries(
        [i \in 1..Len(executed_models) |->
            [model_name |-> executed_models[i],
             fqn |-> Fqn(Upper(executed_models[i]))]],
        TRUE).successful

CollectMetricsCall ==
    /\ IsNone(c_out)
    /\ c_out' =
          Some([call |-> "collect_metrics",
                metrics |-> CollectMetrics("A", c_in.executed_models,
                                           ConvertToFqn(c_in.executed_models),
                                           c_in).metrics,
                model_details |-> CollectMetricsDetails(c_in.executed_models,
                                                        c_in)])
    /\ UNCHANGED c_in

CollectMetricsByQueryIdsCall ==
    /\ IsNone(c_out)
    /\ c_out' =
          Some([call |-> "collect_metrics_by_query_ids",
                metrics |->
                    CollectMetricsByQueryIds(
                        "A", QueryResultsOf(c_in.executed_models), c_in).metrics,
                model_details |->
                    CollectMetricsByQueryIdsDetails(
                        QueryResultsOf(c_in.executed_models), c_in)])
    /\ UNCHANGED c_in

(***************************************************************************)
(* The comparison of several pipelines on its own: compare_metrics is      *)
(* called for each pipeline in turn, then generate_aggregated_report for   *)
(* the comparisons it returned.                                            *)
(***************************************************************************)
VARIABLES
    g_in,         \* per pipeline: its name and the metrics to compare
    g_cost,       \* what _load_cost_config returns
    g_cmp,        \* the PipelineComparisons returned so far
    g_out         \* None, or Some(what generate_aggregated_report built)

aggVars == <<g_in, g_cost, g_cmp, g_out>>

MaxCompared == 2

(* Build metrics of a run: each counter at its baseline value or doubled.  *)
ComparedBuilds ==
    { MetricsResult(t, b, r) : t \in {1, 2}, b \in {1, 2}, r \in {1, 2} }

(* Query metrics of a run: none, or a probe as fast as or slower than the  *)
(* baseline's.                                                             *)
ComparedQueries ==
    { None } \cup { Some(MetricsResult(t, 1, 1)) : t \in {1, 2} }

(* The pipelines compared, in the order of PIPELINES. *)
ComparedNames == <<"pipeline_a", "pipeline_b", "pipeline_c">>

AggregateInputs ==
    /\ g_in \in
          { s \in SeqsUpTo([pipeline_name : {"pipeline_a", "pipeline_b", "pipeline_c"},
                            current_metrics : ComparedBuilds,
                            current_query_metrics : ComparedQueries],
                           MaxCompared) :
              /\ Len(s) >= 1
              /\ \A i \in 1..Len(s) : s[i].pipeline_name = ComparedNames[i] }
    /\ g_cost \in {None, Some([enabled |-> TRUE])}
    /\ g_cmp = <<>>
    /\ g_out = None

AggregateIdle ==
    /\ g_in = <<>> /\ g_cost = None /\ g_cmp = <<>> /\ g_out = None

(* compare_metrics for the next pipeline, against a baseline whose build   *)
(* and query counters are all 1.                                           *)
CompareNextCall ==
    /\ Len(g_cmp) < Len(g_in)
    /\ g_out = None
    /\ g_cmp' =
          Append(g_cmp,
                 CompareMetrics(MetricsResult(1, 1, 1),
                                g_in[Len(g_cmp) + 1].current_metrics,
                                g_in[Len(g_cmp) + 1].pipeline_name, "",
                                Some(MetricsResult(1, 1, 1)),
                                g_in[Len(g_cmp) + 1].current_query_metrics,
                                g_cost))
    /\ UNCHANGED <<g_in, g_cost, g_out>>

GenerateAggregatedReportCall ==
    /\ g_in # <<>>
    /\ Len(g_cmp) = Len(g_in)
    /\ g_out = None
    /\ g_out' = Some(GenerateAggregatedReport(g_cmp, TRUE))
    /\ UNCHANGED <<g_in, g_cost, g_cmp>>

(***************************************************************************)
(* Specifications.  Each drives one part of the program and leaves the     *)
(* variables of the others idle.                                           *)
(***************************************************************************)
vars ==
    <<verifyVars, reportVars, baselineVars, benchVars, pipeVars, collectVars, aggVars>>

VerifyInit ==
    VerifyInputs /\ ReportIdle /\ BaselineStoreIdle /\ BenchIdle /\ PipelineIdle
    /\ CollectIdle /\ AggregateIdle

VerifyNext ==
    VerifyModelsCall /\ UNCHANGED <<reportVars, baselineVars, benchVars, pipeVars,
                   collectVars, aggVars>>

SpecVerify == VerifyInit /\ [][VerifyNext]_vars

ReportInit ==
    ReportInputs /\ VerifyIdle /\ BaselineStoreIdle /\ BenchIdle /\ PipelineIdle
    /\ CollectIdle /\ AggregateIdle

ReportNext ==
    CompareMetricsCall /\ UNCHANGED <<verifyVars, baselineVars, benchVars, pipeVars,
                   collectVars, aggVars>>

SpecReport == ReportInit /\ [][ReportNext]_vars

BaselineInit ==
    BaselineStoreStart /\ VerifyIdle /\ ReportIdle /\ BenchIdle /\ PipelineIdle
    /\ CollectIdle /\ AggregateIdle

BaselineNext ==
    \/ SaveBaselineCall /\ UNCHANGED <<verifyVars, reportVars, benchVars, pipeVars,
                   collectVars, aggVars>>
    \/ LoadBaselineCall /\ UNCHANGED <<verifyVars, reportVars, benchVars, pipeVars,
                   collectVars, aggVars>>
    \/ ClearBaselineCall /\ UNCHANGED <<verifyVars, reportVars, benchVars, pipeVars,
                   collectVars, aggVars>>

SpecBaseline == BaselineInit /\ [][BaselineNext]_vars

Init ==
    BenchStart /\ VerifyIdle /\ ReportIdle /\ BaselineStoreIdle /\ PipelineIdle
    /\ CollectIdle /\ AggregateIdle

Next ==
    \/ RunCommandCall
          /\ UNCHANGED <<verifyVars, reportVars, baselineVars, pipeVars,
                   collectVars, aggVars>>
    \/ SaveBaselineCommandCall
          /\ UNCHANGED <<verifyVars, reportVars, baselineVars, pipeVars,
                   collectVars, aggVars>>
    \/ CompareCommandCall
          /\ UNCHANGED <<verifyVars, reportVars, baselineVars, pipeVars,
                   collectVars, aggVars>>

Spec == Init /\ [][Next]_vars

PipelineInit ==
    PipelineInputs /\ VerifyIdle /\ ReportIdle /\ BaselineStoreIdle /\ BenchIdle
    /\ CollectIdle /\ AggregateIdle

PipelineNext ==
    RunPipelineCall
        /\ UNCHANGED <<verifyVars, reportVars, baselineVars, benchVars,
                       collectVars, aggVars>>

SpecPipeline == PipelineInit /\ [][PipelineNext]_vars

CollectInit ==
    CollectInputs /\ VerifyIdle /\ ReportIdle /\ BaselineStoreIdle /\ BenchIdle
    /\ PipelineIdle /\ AggregateIdle

CollectNext ==
    \/ CollectMetricsCall
          /\ UNCHANGED <<verifyVars, reportVars, baselineVars, benchVars,
                         pipeVars, aggVars>>
    \/ CollectMetricsByQueryIdsCall
          /\ UNCHANGED <<verifyVars, reportVars, baselineVars, benchVars,
                         pipeVars, aggVars>>

SpecCollect == CollectInit /\ [][CollectNext]_vars

AggregateInit ==
    AggregateInputs /\ VerifyIdle /\ ReportIdle /\ BaselineStoreIdle
    /\ BenchIdle /\ PipelineIdle /\ CollectIdle

AggregateNext ==
    \/ CompareNextCall
          /\ UNCHANGED <<verifyVars, reportVars, baselineVars, benchVars,
                         pipeVars, collectVars>>
    \/ GenerateAggregatedReportCall
          /\ UNCHANGED <<verifyVars, reportVars, baselineVars, benchVars,
                         pipeVars, collectVars>>

SpecAggregate == AggregateInit /\ [][AggregateNext]_vars

(***************************************************************************)
(* Claims about output verification (checked under SpecVerify).            *)
(***************************************************************************)
VerifyDone == IsSome(v_out)
VerifyResults == Val(v_out).summary.results
VerifyIdx == 1..Len(v_fqns)

(* No entry of the supplied list is filed under the model's fqn or name.   *)
NoBaselineEntry(fqn) ==
    \A j \in 1..Len(v_baseline) :
        BaselineKey(BaselineFingerprintFromDict(v_baseline[j]))
            \notin {fqn, ModelNameOf(fqn)}

(* The baseline fingerprint the supplied list holds for the model.         *)
BaselineOf(fqn) == LookupBaseline(CreateBaselineMap(v_baseline), fqn)

(* The hash the warehouse yields for a table: HASH_AGG, else the fallback. *)
WarehouseHash(tbl) == IF IsSome(tbl.hash_agg) THEN tbl.hash_agg ELSE tbl.sum_hash

(* A baseline fingerprint exists and the table's row count was read.       *)
Compared(i) ==
    /\ v_connect
    /\ IsSome(BaselineOf(v_fqns[i]))
    /\ IsSome(v_tables[v_fqns[i]].count)

BaseRows(i) == Val(BaselineOf(v_fqns[i])).row_count
BaseHash(i) == Val(BaselineOf(v_fqns[i])).content_hash
CurRows(i) == Val(v_tables[v_fqns[i]].count)
CurHash(i) == WarehouseHash(v_tables[v_fqns[i]])

FirstRunAccepted(i) ==
    NoBaselineEntry(v_fqns[i]) =>
        /\ VerifyResults[i].passed
        /\ VerifyResults[i].warnings # <<>>

C2_RowCountMismatchFails ==
    VerifyDone =>
        \A i \in VerifyIdx :
            (Compared(i) /\ BaseRows(i) # Some(CurRows(i))) =>
                /\ VerifyResults[i].passed = FALSE
                /\ VerifyResults[i].row_count_match = Some(FALSE)
                /\ \E k \in 1..Len(VerifyResults[i].error_message) :
                      LET e == VerifyResults[i].error_message[k]
                      IN  /\ e.kind = "Row count mismatch"
                          /\ e.expected = BaseRows(i)
                          /\ e.got = Some(CurRows(i))

C2_Witness ==
    /\ VerifyDone
    /\ \E i \in VerifyIdx :
          /\ Compared(i)
          /\ BaseRows(i) = Some(1) /\ CurRows(i) = 0
          /\ ~VerifyResults[i].passed

(* C3: with a baseline, equal row counts greater than 0 and a content hash *)
(* on both sides, the model passes iff the hashes are equal, and           *)
(* hash_match is that equality.                                            *)
C3_HashDecides ==
    VerifyDone =>
        \A i \in VerifyIdx :
            (/\ Compared(i)
             /\ BaseRows(i) = Some(CurRows(i)) /\ CurRows(i) > 0
             /\ IsSome(BaseHash(i)) /\ IsSome(CurHash(i))) =>
                /\ VerifyResults[i].passed <=> (BaseHash(i) = CurHash(i))
                /\ VerifyResults[i].hash_match = Some(BaseHash(i) = CurHash(i))

C3_Witness ==
    /\ VerifyDone
    /\ \E i \in VerifyIdx :
          /\ Compared(i)
          /\ BaseRows(i) = Some(CurRows(i)) /\ CurRows(i) > 0
          /\ IsSome(BaseHash(i)) /\ IsSome(CurHash(i))
          /\ BaseHash(i) # CurHash(i)
          /\ VerifyResults[i].hash_match = Some(FALSE)

(* C4: with a baseline, equal row counts greater than 0 and a content hash *)
(* on exactly one side, hash_match is indeterminate, the model is not      *)
(* failed and the result carries a warning.                                *)
C4_OneSidedHashIndeterminate ==
    VerifyDone =>
        \A i \in VerifyIdx :
            (/\ Compared(i)
             /\ BaseRows(i) = Some(CurRows(i)) /\ CurRows(i) > 0
             /\ IsSome(BaseHash(i)) # IsSome(CurHash(i))) =>
                /\ VerifyResults[i].hash_match = None
                /\ VerifyResults[i].passed
                /\ VerifyResults[i].warnings # <<>>

C4_Witness ==
    /\ VerifyDone
    /\ \E i \in VerifyIdx :
          /\ Compared(i)
          /\ BaseRows(i) = Some(CurRows(i)) /\ CurRows(i) > 0
          /\ IsSome(BaseHash(i)) /\ IsNone(CurHash(i))
          /\ VerifyResults[i].hash_match = None

HashQueries(fqn) ==
    { k \in 1..Len(Val(v_out).queries) :
        /\ Val(v_out).queries[k].fqn = fqn
        /\ Val(v_out).queries[k].sql \in {"HASH_AGG", "SUM_HASH"} }

(* C5: a baseline and a current table that both have row count 0 give      *)
(* passed=True and hash_match=True; and no table whose row count is 0 is   *)
(* ever hashed: no hash query is issued for it and the current             *)
(* fingerprint's content_hash is absent.                                   *)
C5_EmptyTablesNeverHashed ==
    VerifyDone =>
        \A i \in VerifyIdx :
            /\ (Compared(i) /\ BaseRows(i) = Some(0) /\ CurRows(i) = 0) =>
                  /\ VerifyResults[i].passed
                  /\ VerifyResults[i].hash_match = Some(TRUE)
            /\ (v_tables[v_fqns[i]].count = Some(0)) =>
                  /\ HashQueries(v_fqns[i]) = {}
                  /\ VerifyResults[i].current_hash = None

C5_Witness ==
    /\ VerifyDone
    /\ \E i \in VerifyIdx :
          /\ Compared(i) /\ BaseRows(i) = Some(0) /\ CurRows(i) = 0
          /\ VerifyResults[i].current_row_count = Some(0)
          /\ VerifyResults[i].passed
          /\ Val(v_out).queries = <<Query("COUNT", v_fqns[i])>>

(* The two hashes of a compared model were compared: the row counts are   *)
(* equal and both sides have a content hash.                               *)
HashesCompared(i) ==
    /\ BaseRows(i) = Some(CurRows(i))
    /\ IsSome(BaseHash(i)) /\ IsSome(CurHash(i))

(* C25 as stated: for a model with a baseline fingerprint and a current    *)
(* row count greater than 0, hash_match is True only if both content       *)
(* hashes are present and equal; a result whose hashes were not compared   *)
(* never reports hash_match=True.                                          *)
C25_HashMatchOnlyIfCompared ==
    VerifyDone =>
        \A i \in VerifyIdx :
            (Compared(i) /\ CurRows(i) > 0) =>
                (VerifyResults[i].hash_match = Some(TRUE) =>
                    /\ HashesCompared(i)
                    /\ BaseHash(i) = CurHash(i))

(* C25, amended: for a model with a baseline fingerprint and a current     *)
(* row count greater than 0, hash_match is False exactly when the hashes   *)
(* were compared and differ, indeterminate exactly when the row counts are *)
(* equal and one side alone has a hash, and True otherwise: when the       *)
(* hashes were compared and are equal, and also when they were not         *)
(* compared because the row counts differ or both sides lack a hash.       *)
C25_HashMatchDefaultsToTrue ==
    VerifyDone =>
        \A i \in VerifyIdx :
            (Compared(i) /\ CurRows(i) > 0) =>
                /\ VerifyResults[i].hash_match = Some(FALSE)
                      <=> (HashesCompared(i) /\ BaseHash(i) # CurHash(i))
                /\ VerifyResults[i].hash_match = None
                      <=> /\ BaseRows(i) = Some(CurRows(i))
                          /\ IsSome(BaseHash(i)) # IsSome(CurHash(i))
                /\ (\/ BaseRows(i) # Some(CurRows(i))
                    \/ IsNone(BaseHash(i)) /\ IsNone(CurHash(i)))
                      => VerifyResults[i].hash_match = Some(TRUE)

(* A model whose row count changed, with different hashes on the two       *)
(* sides, is reported with hash_match=True.                                *)
C25_Witness ==
    /\ VerifyDone
    /\ \E i \in VerifyIdx :
          /\ Compared(i) /\ CurRows(i) > 0
          /\ BaseRows(i) # Some(CurRows(i))
          /\ IsSome(BaseHash(i)) /\ IsSome(CurHash(i))
          /\ BaseHash(i) # CurHash(i)
          /\ ~VerifyResults[i].passed
          /\ VerifyResults[i].hash_match = Some(TRUE)

(***************************************************************************)
(* Claims about the comparison engine (checked under SpecReport).          *)
(***************************************************************************)
ReportDone == IsSome(r_out)
ReportComparisons == Val(r_out).comparisons
ReportIdx == 1..Len(ReportComparisons)

(* The keys of the metrics for which a higher value is worse.              *)
HigherIsWorseKeys ==
    { "execution_time_change_pct", "bytes_scanned_change_pct",
      "partitions_scanned_change_pct", "cost_change_pct" }

(* C7 as stated: every comparison of a baseline value b with a current     *)
(* value c has change 0.0 when b = 0 and, when b > 0, a positive change    *)
(* iff c > b.                                                              *)
C7_PositiveIffIncrease ==
    ReportDone =>
        \A k \in ReportIdx :
            LET b == ReportComparisons[k].baseline_value
                c == ReportComparisons[k].current_value
                p == ReportComparisons[k].change_pct
            IN  /\ b = 0 => p = 0
                /\ b > 0 => (p > 0 <=> c > b)

(* C7, amended: the change is 0.0 when b = 0; when b > 0 the change,       *)
(* rounded to one decimal place, is positive only if c > b, is positive    *)
(* whenever the increase exceeds 0.05% of b, and is 0.0 for an increase    *)
(* below 0.05% of b.                                                       *)
C7_PositiveIffIncreaseAfterRounding ==
    ReportDone =>
        \A k \in ReportIdx :
            LET b == ReportComparisons[k].baseline_value
                c == ReportComparisons[k].current_value
                p == ReportComparisons[k].change_pct
            IN  /\ b = 0 => p = 0
                /\ b > 0 =>
                      /\ p > 0 => c > b
                      /\ (c > b /\ 2000 * (c - b) > b) => p > 0
                      /\ (c > b /\ 2000 * (c - b) < b) => p = 0

C7_Witness ==
    /\ ReportDone
    /\ DictGet(r_base, "total_execution_time_ms", 0) = BigMetric
    /\ DictGet(r_cur, "total_execution_time_ms", 0) = BigMetric + 1
    /\ ReportComparisons[1].change_pct = 0
    /\ DictGet(r_base, "total_bytes_scanned", 0) = 0
    /\ DictGet(r_cur, "total_bytes_scanned", 0) = 1
    /\ ReportComparisons[2].change_pct = 0
    /\ DictGet(r_base, "total_rows_produced", 0) = 1
    /\ DictGet(r_cur, "total_rows_produced", 0) = 0
    /\ ReportComparisons[3].change_pct = -1000

(* C8 as stated: a metric is flagged is_regression iff its current value   *)
(* is greater than its baseline value and it is one of execution time,     *)
(* bytes scanned, partitions scanned or estimated cost; rows produced is   *)
(* never flagged.                                                          *)
C8_RegressionIffIncrease ==
    ReportDone =>
        \A k \in ReportIdx :
            LET m == ReportComparisons[k]
            IN  /\ m.is_regression <=>
                      /\ m.current_value > m.baseline_value
                      /\ m.metric_key[2] \in HigherIsWorseKeys
                /\ m.metric_key[2] = "rows_produced_change_pct" =>
                      ~m.is_regression

(***************************************************************************)
(* Claims about the baseline store (checked under SpecBaseline).           *)
(***************************************************************************)

(* C10: after a save_baseline call for a pipeline name has returned True,  *)
(* a load_baseline call for the same name (no save or clear in between)    *)
(* returns a dict whose build_metrics, query_metrics and fingerprints are  *)
(* the saved arguments, whose pipeline_name is the saved name and whose    *)
(* metadata.timestamp is the timestamp that save wrote.                    *)
C10_SaveLoadRoundTrip ==
    (/\ IsSome(b_write) /\ IsSome(b_load)
     /\ Val(b_write).op = "save" /\ Val(b_write).ret
     /\ Val(b_load).pipeline_name = Val(b_write).pipeline_name) =>
        /\ ~Val(b_load).raised
        /\ IsSome(Val(b_load).data)
        /\ LET saved == Val(Val(b_write).given)
               loaded == Val(Val(b_load).data)
           IN  /\ loaded.build_metrics = saved.build_metrics
               /\ loaded.query_metrics = saved.query_metrics
               /\ loaded.fingerprints = saved.fingerprints
               /\ loaded.pipeline_name = Val(b_write).pipeline_name
               /\ loaded.metadata.timestamp = saved.timestamp

C10_Witness ==
    /\ IsSome(b_write) /\ IsSome(b_load)
    /\ Val(b_write).op = "save" /\ Val(b_write).ret
    /\ Val(b_write).pipeline_name = <<"Pipeline", " ", "A">>
    /\ Val(b_load).pipeline_name = <<"Pipeline", " ", "A">>
    /\ LET saved == Val(Val(b_write).given)
       IN  /\ saved.timestamp = Timestamp(2)
           /\ saved.query_metrics = <<>>
           /\ Len(saved.fingerprints) = 1
           /\ saved.fingerprints[1].row_count = None
           /\ saved.fingerprints[1].content_hash = Some(11)
           /\ IsSome(Val(b_load).data)
           /\ Val(Val(b_load).data).fingerprints = saved.fingerprints
    /\ Val(b_load).valid

(* A file of the old format: a JSON object with the combined 'metrics'     *)
(* field and no 'build_metrics' field.                                     *)
IsLegacyFile(file) ==
    /\ IsSome(file)
    /\ Val(file)[1] = "object"
    /\ "metrics" \in DOMAIN Val(file)[2]
    /\ "build_metrics" \notin DOMAIN Val(file)[2]

(* C11: a load_baseline call on a file that has the legacy 'metrics' field *)
(* and no 'build_metrics' field raises the format error whose message      *)
(* tells the user to regenerate the baseline, and returns no data at all;  *)
(* and no load_baseline call changes any baseline file.                    *)
C11_LegacyLoadRaises ==
    /\ [](IsSome(b_load) /\
             IsLegacyFile(b_files[GetBaselineFilePath(Val(b_load).pipeline_name)])
          => /\ Val(b_load).raised
             /\ Val(b_load).data = None
             /\ Val(b_load).error_msg = Some(OldFormatMessage))
    /\ [][IsSome(b_load') => b_files' = b_files]_vars

C11_Witness ==
    /\ IsSome(b_load)
    /\ Val(b_load).pipeline_name = <<"Pipeline", " ", "A">>
    /\ b_files[GetBaselineFilePath(<<"Pipeline", " ", "A">>)]
          = Some(LegacyBaselineText)
    /\ Val(b_load).raised
    /\ IsSome(Val(b_load).error_msg)
    /\ b_clock > 0

(***************************************************************************)
(* Claims about the commands (checked under Spec).                         *)
(***************************************************************************)

(* The pipelines a command was asked for. *)
RequestedPipelines(pipeline_arg) ==
    PipelinesOf(NormalizePipelineId(pipeline_arg).id)

LastIs(cmd) == IsSome(last) /\ Val(last).cmd = cmd

(* The step just taken is a command of this name. *)
StepIs(cmd) ==
    /\ cmdCount' = cmdCount + 1
    /\ IsSome(last') /\ Val(last').cmd = cmd

(* A pipeline's verification in which fewer models passed than were        *)
(* verified.                                                               *)
FewerPassed(v) ==
    /\ IsSome(v.verification)
    /\ Val(v.verification).passed_models < Val(v.verification).total_models

(* C6: a run command with verification enabled in which, for some          *)
(* requested pipeline, fewer models pass verification than were verified   *)
(* returns exit code 2 and leaves the result files as they were; a run in  *)
(* which every requested pipeline is verified with all its models passing  *)
(* and whose result files are all saved returns exit code 0.               *)
C6_VerificationDecidesExitCode ==
    /\ [](LastIs("run") /\ ~Val(last).flag =>
            LET l == Val(last)
            IN  /\ (\E i \in 1..Len(l.verified) : FewerPassed(l.verified[i]))
                       => l.exit_code = EXIT_VERIFICATION_FAILED
                /\ (/\ Len(l.verified) = Len(RequestedPipelines(l.pipeline))
                    /\ \A i \in 1..Len(l.verified) :
                          /\ IsSome(l.verified[i].verification)
                          /\ ~FewerPassed(l.verified[i])
                    /\ l.failed_step # "save")
                       => l.exit_code = EXIT_SUCCESS)
    /\ [][(/\ StepIs("run") /\ ~Val(last').flag
           /\ \E i \in 1..Len(Val(last').verified) :
                 FewerPassed(Val(last').verified[i]))
             => resultFiles' = resultFiles]_vars

(* A run of pipeline A against a baseline whose content hash the rebuilt   *)
(* table no longer has: the one model fails, the exit code is 2 and no     *)
(* result file is written.                                                 *)
C6_Witness ==
    /\ LastIs("run") /\ ~Val(last).flag
    /\ Val(last).pipeline = "a"
    /\ Len(Val(last).verified) = 1
    /\ FewerPassed(Val(last).verified[1])
    /\ Val(Val(last).verified[1].verification).results[1].row_count_match
          = Some(TRUE)
    /\ Val(Val(last).verified[1].verification).results[1].hash_match
          = Some(FALSE)
    /\ Val(last).exit_code = EXIT_VERIFICATION_FAILED
    /\ IsNone(resultFiles[GetResultFilePath("A")])

(* The baseline file of a pipeline holds the build and query metrics of    *)
(* the pipeline's result file.                                             *)
BaselineHoldsResult(baselines, results, p) ==
    LET loaded == LoadBaseline(baselines, GetPipelineName(p))
        result_data == LoadResult(results, p)
    IN  /\ ~loaded.raised /\ IsSome(loaded.data) /\ IsSome(result_data)
        /\ {"build_metrics", "query_metrics"} \subseteq DOMAIN Val(loaded.data)
        /\ Val(loaded.data).build_metrics
              = Val(result_data).run_data.metrics
        /\ Val(loaded.data).query_metrics
              = Val(result_data).run_data.query_metrics

BaselineUnchanged(p) == BaselineHoldsResult(baselineFiles, resultFiles, p)

(* The pipeline a comparison is about. *)
PipelineOf(comparison) ==
    CHOOSE p \in PipelineIds : GetPipelineName(p) = comparison.pipeline_name

(* A comparison without change: 0.0% on every metric, no regression, no    *)
(* warning.                                                                *)
NoChange(comparison) ==
    /\ \A k \in 1..Len(comparison.comparisons) :
          /\ comparison.comparisons[k].change_pct = 0
          /\ ~comparison.comparisons[k].is_regression
    /\ comparison.warnings = <<>>

(* C9: a compare command reports, for every pipeline whose baseline holds  *)
(* the metrics of its current result, 0.0% change on every metric of the   *)
(* build set and of the query set and no regression; a save-baseline       *)
(* command leaves every pipeline it saved in that condition, and only a    *)
(* run command changes the result files, only a save-baseline command the  *)
(* baselines.                                                              *)
C9_UnchangedBaselineNoRegression ==
    /\ [](LastIs("compare") =>
            \A i \in 1..Len(Val(last).comparisons) :
                BaselineUnchanged(PipelineOf(Val(last).comparisons[i]))
                    => NoChange(Val(last).comparisons[i]))
    /\ [][StepIs("save-baseline") =>
            \A i \in 1..Len(Val(last').written) :
                BaselineHoldsResult(baselineFiles', resultFiles',
                                    Val(last').written[i])]_vars
    /\ [][/\ ~StepIs("run") => resultFiles' = resultFiles
          /\ ~StepIs("save-baseline") => baselineFiles' = baselineFiles]_vars

(* run, save-baseline, compare for pipeline A: the comparison has the four *)
(* build metrics and the four query metrics, none of them zero on both     *)
(* sides.                                                                  *)
C9_Witness ==
    /\ LastIs("compare") /\ Val(last).exit_code = EXIT_SUCCESS
    /\ Val(last).pipeline = "a"
    /\ Len(Val(last).comparisons) = 1
    /\ BaselineUnchanged("A")
    /\ Val(LoadBaseline(baselineFiles, GetPipelineName("A")).data)
          .metadata.timestamp = Timestamp(1)
    /\ LET c == Val(last).comparisons[1]
       IN  /\ Len(c.build_comparisons) = 4
           /\ Len(c.query_comparisons) = 4
           /\ c.build_comparisons[1].baseline_value = 2
           /\ c.query_comparisons[1].baseline_value = 2
           /\ NoChange(c)


(* The baseline file of a pipeline. *)
BaselineFileOf(p) == GetBaselineFilePath(GetPipelineName(p))

(* The valid pipelines a command was asked for (none for a bad argument). *)
Requested(pipeline_arg) ==
    IF NormalizePipelineId(pipeline_arg).raised THEN {}
    ELSE Range(RequestedPipelines(pipeline_arg))

(* C12: a save-baseline command without --force leaves the baseline file   *)
(* of every requested pipeline that has one as it was, whatever the file   *)
(* holds, and when there is such a file the command returns a non-zero     *)
(* exit code.                                                              *)
C12_NoOverwriteWithoutForce ==
    [][(StepIs("save-baseline") /\ ~Val(last').flag) =>
          \A p \in Requested(Val(last').pipeline) :
              IsSome(baselineFiles[BaselineFileOf(p)]) =>
                  /\ baselineFiles'[BaselineFileOf(p)]
                        = baselineFiles[BaselineFileOf(p)]
                  /\ Val(last').exit_code # EXIT_SUCCESS]_vars

(* Whether a save-baseline or compare command gets as far as loading the   *)
(* baseline of p: p is the first pipeline it was asked for and the result  *)
(* file of p loads (for save-baseline, with build metrics in it).          *)
MeetsBaselineOf(cmd, pipeline_arg, p) ==
    /\ ~NormalizePipelineId(pipeline_arg).raised
    /\ RequestedPipelines(pipeline_arg)[1] = p
    /\ LET result_data == LoadResult(resultFiles, p)
       IN  /\ IsSome(result_data) /\ Val(result_data) # <<>>
           /\ cmd = "save-baseline" =>
                 DictGet(DictGet(Val(result_data), "run_data", <<>>),
                         "metrics", <<>>) # <<>>

(* A compare command, or a save-baseline command without --force. *)
StepIsUnforced ==
    \/ StepIs("compare")
    \/ StepIs("save-baseline") /\ ~Val(last').flag

(* C13: when a compare command, or a save-baseline command without         *)
(* --force, loads the baseline of a requested pipeline and the file is in  *)
(* the legacy format, the command returns exit code 1, writes no report    *)
(* and no baseline for that pipeline, and leaves the legacy file as it     *)
(* was.                                                                    *)
C13_LegacyBaselineRejected ==
    [][\A p \in PipelineIds :
          (/\ StepIsUnforced
           /\ MeetsBaselineOf(Val(last').cmd, Val(last').pipeline, p)
           /\ IsLegacyFile(baselineFiles[BaselineFileOf(p)]))
          => /\ Val(last').exit_code = EXIT_BENCHMARK_FAILED
             /\ \A i \in 1..Len(Val(last').reports) :
                   Val(last').reports[i].pipeline_name # GetPipelineName(p)
             /\ p \notin Range(Val(last').written)
             /\ Val(last').aggregated = None
             /\ baselineFiles'[BaselineFileOf(p)]
                   = baselineFiles[BaselineFileOf(p)]]_vars

(* A compare command has just been refused because of a legacy baseline    *)
(* of pipeline A, whose results exist.                                     *)
C13_Witness ==
    /\ LastIs("compare")
    /\ Val(last).pipeline = "a"
    /\ Val(last).exit_code = EXIT_BENCHMARK_FAILED
    /\ IsLegacyFile(baselineFiles[BaselineFileOf("A")])
    /\ IsSome(LoadResult(resultFiles, "A"))

(* A command of any of the three kinds has just been run. *)
StepIsCommand ==
    StepIs("run") \/ StepIs("save-baseline") \/ StepIs("compare")

(* C14: a run, save-baseline or compare command whose pipeline argument,   *)
(* lower-cased and trimmed, is none of a, b, c, all returns exit code 3    *)
(* without any side effect: it executes no pipeline, attempts no warehouse *)
(* connection, leaves the warehouse, the result files and the baseline     *)
(* files as they were, and writes no report.                               *)
C14_InvalidPipelineNoSideEffect ==
    [][(/\ StepIsCommand
        /\ LowerStrip(Val(last').pipeline) \notin {"a", "b", "c", "all"})
       => /\ Val(last').exit_code = EXIT_INVALID_ARGUMENTS
          /\ Val(last').executed = <<>>
          /\ Val(last').connections = <<>>
          /\ Val(last').written = <<>>
          /\ Val(last').reports = <<>>
          /\ Val(last').aggregated = None
          /\ warehouse' = warehouse
          /\ resultFiles' = resultFiles
          /\ baselineFiles' = baselineFiles]_vars

(* A run command with a bad pipeline argument has returned 3 where a       *)
(* result file and a baseline file were there to be changed.               *)
C14_Witness ==
    /\ LastIs("run")
    /\ Val(last).pipeline = "x"
    /\ Val(last).exit_code = EXIT_INVALID_ARGUMENTS
    /\ IsSome(resultFiles[GetResultFilePath("A")])
    /\ IsSome(baselineFiles[BaselineFileOf("A")])

(***************************************************************************)
(* Further claims about the comparison report (checked under SpecReport).  *)
(***************************************************************************)

(* The change reported for the execution time of one metric set. *)
ExecTimeChangeOf(comparisons) ==
    LET k == CHOOSE i \in 1..Len(comparisons) :
                 comparisons[i].metric_name[2] = "Execution Time"
    IN  comparisons[k].change_pct

(* The category the signs of the two changes select. *)
CategoryOfSigns(build, query) ==
    CASE build > 0 /\ query < 0 -> "FAVORABLE"
      [] build < 0 /\ query > 0 -> "UNFAVORABLE"
      [] build > 0 /\ query > 0 -> "REGRESSION"
      [] build < 0 /\ query < 0 -> "IMPROVEMENT"
      [] build = 0 \/ query = 0 -> "NEUTRAL"

(* C15: whenever compare_metrics makes the tradeoff analysis, its          *)
(* recommendation is the one category the signs of the build-set and the   *)
(* query-set execution-time changes select: FAVORABLE for build > 0 and    *)
(* query < 0, UNFAVORABLE for build < 0 and query > 0, REGRESSION for both *)
(* > 0, IMPROVEMENT for both < 0, NEUTRAL when either change is 0.         *)
C15_TradeoffBySigns ==
    (ReportDone /\ Val(r_out).query_comparisons # <<>>) =>
        /\ Val(r_out).tradeoff_analysis # <<>>
        /\ Val(r_out).tradeoff_analysis.recommendation =
              CategoryOfSigns(ExecTimeChangeOf(Val(r_out).build_comparisons),
                              ExecTimeChangeOf(Val(r_out).query_comparisons))

(* A slower build with faster queries has been classified. *)
C15_Witness ==
    /\ ReportDone
    /\ Val(r_out).query_comparisons # <<>>
    /\ ExecTimeChangeOf(Val(r_out).build_comparisons) > 0
    /\ ExecTimeChangeOf(Val(r_out).query_comparisons) < 0
    /\ Val(r_out).tradeoff_analysis.recommendation = "FAVORABLE"

(* The comparison of the estimated cost of one metric set. *)
CostComparisonOf(comparisons) ==
    comparisons[CHOOSE i \in 1..Len(comparisons) :
                    comparisons[i].metric_name[2] = "Estimated Cost"]

(* The execution-time comparison of one metric set. *)
ExecTimeComparisonOf(comparisons) ==
    comparisons[CHOOSE i \in 1..Len(comparisons) :
                    comparisons[i].metric_name[2] = "Execution Time"]

(* The cost, in 1e-4 USD, of one billed minute under a cost               *)
(* configuration: 60 / 3600 * credits_per_hour * cost_per_credit_usd.      *)
MinuteCost(cost_config) ==
    RoundDiv(60 * DictGet(cost_config, "credits_per_hour", 1)
                * DictGet(cost_config, "cost_per_credit_usd", 250) * 100,
             3600)

(* In one metric set, an execution time of at most 60,000 ms costs one     *)
(* billed minute, and a longer one costs more.                             *)
MinuteFloorIn(comparisons) ==
    LET time == ExecTimeComparisonOf(comparisons)
        cost == CostComparisonOf(comparisons)
    IN  /\ time.baseline_value <= 60000 =>
              /\ cost.baseline_value = MinuteCost(Val(r_cost))
              /\ cost.baseline_value = Val(CalculateCost(60000, r_cost))
        /\ time.current_value <= 60000 =>
              /\ cost.current_value = MinuteCost(Val(r_cost))
              /\ cost.current_value = Val(CalculateCost(60000, r_cost))
        /\ time.baseline_value > 60000 =>
              cost.baseline_value > MinuteCost(Val(r_cost))
        /\ time.current_value > 60000 =>
              cost.current_value > MinuteCost(Val(r_cost))

(* C16: with cost estimation enabled, every compared metric set has an     *)
(* estimated cost, and in the build set as in the query set the cost of an *)
(* execution time of at most 60,000 ms is the cost of exactly 60,000 ms    *)
(* (one billed minute), while a longer execution time costs more.          *)
C16_MinuteBillingFloor ==
    (ReportDone /\ IsSome(r_cost)) =>
        /\ MinuteFloorIn(Val(r_out).build_comparisons)
        /\ Val(r_out).query_comparisons # <<>> =>
              MinuteFloorIn(Val(r_out).query_comparisons)

(* A build of 30 s and a query of 30 s have been costed next to longer     *)
(* ones.                                                                   *)
C16_Witness ==
    /\ ReportDone /\ IsSome(r_cost)
    /\ Val(r_out).query_comparisons # <<>>
    /\ ExecTimeComparisonOf(Val(r_out).build_comparisons).baseline_value
          = HalfMinuteMs
    /\ ExecTimeComparisonOf(Val(r_out).build_comparisons).current_value
          = BigMetric
    /\ ExecTimeComparisonOf(Val(r_out).query_comparisons).current_value
          = HalfMinuteMs
    /\ CostComparisonOf(Val(r_out).query_comparisons).current_value
          = MinuteCost(Val(r_cost))
    /\ CostComparisonOf(Val(r_out).build_comparisons).baseline_value
          = MinuteCost(Val(r_cost))
    /\ CostComparisonOf(Val(r_out).build_comparisons).current_value
          > MinuteCost(Val(r_cost))

(***************************************************************************)
(* Further claims about the commands (checked under Spec).                 *)
(***************************************************************************)

(* The report of the i-th comparison of the latest command was written. *)
ReportWritten(i) ==
    \E j \in 1..Len(Val(last).reports) :
        /\ Val(last).reports[j].pipeline_name
              = Val(last).comparisons[i].pipeline_name
        /\ Val(last).reports[j].written

ExecutedPipelines ==
    [i \in 1..Len(Val(last).executed) |-> Val(last).executed[i].pipeline_id]

(* The events of the latest command's connections that belong to metrics   *)
(* collection or to verification.                                          *)
CollectOrVerifyEvents ==
    { i \in 1..Len(Val(last).connections) :
        Val(last).connections[i].phase
            \in {"collect", "count", "query", "verify"} }

(* C18: a run command for "all" calls the job runner for A, B, C in this   *)
(* order and stops at the first pipeline for which it fails: every call    *)
(* before the last has succeeded; and when a call has failed, the command  *)
(* returns exit code 1 without having started metrics collection or        *)
(* verification (no connection attempt, no verification summary) and       *)
(* without writing a result file.                                          *)
C18_RunAllStopsAtFirstFailure ==
    /\ [](LastIs("run") /\ LowerStrip(Val(last).pipeline) = "all" =>
            /\ ExecutedPipelines
                  = SubSeq(<<"A", "B", "C">>, 1, Len(Val(last).executed))
            /\ Len(Val(last).executed) >= 1
            /\ \A i \in 1..(Len(Val(last).executed) - 1) :
                  Val(last).executed[i].success
            /\ (\E i \in 1..Len(Val(last).executed) :
                   ~Val(last).executed[i].success) =>
                  /\ Val(last).exit_code = EXIT_BENCHMARK_FAILED
                  /\ CollectOrVerifyEvents = {}
                  /\ Val(last).connections = <<>>
                  /\ Val(last).verified = <<>>
                  /\ Val(last).written = <<>>
            /\ (\A i \in 1..Len(Val(last).executed) :
                   Val(last).executed[i].success) =>
                  Len(Val(last).executed) = 3)
    /\ [][(/\ StepIs("run")
           /\ \E i \in 1..Len(Val(last').executed) :
                 ~Val(last').executed[i].success)
          => resultFiles' = resultFiles]_vars

(* run all has stopped at pipeline B, which failed after A had run. *)
C18_Witness ==
    /\ LastIs("run")
    /\ Val(last).pipeline = "all"
    /\ Len(Val(last).executed) = 2
    /\ Val(last).executed[1] = [pipeline_id |-> "A", success |-> TRUE]
    /\ Val(last).executed[2] = [pipeline_id |-> "B", success |-> FALSE]
    /\ Val(last).exit_code = EXIT_BENCHMARK_FAILED

(* The failures of the latest command's metrics collection: the events of  *)
(* a refused connection or a failed query in steps 2 and 2.5.              *)
CollectionFailures ==
    { i \in 1..Len(Val(last).connections) :
        /\ Val(last).connections[i].op \in {"refused", "query_failed"}
        /\ Val(last).connections[i].phase \in {"collect", "count", "query"} }

(* The connection for the row-count queries of step 2.5 was refused. *)
CountConnectionRefused ==
    \E i \in CollectionFailures :
        /\ Val(last).connections[i].op = "refused"
        /\ Val(last).connections[i].phase = "count"

(* The run data of the result file the latest run left for a pipeline. *)
PersistedRunData(p) == Val(LoadResult(resultFiles, p)).run_data

StillOpenAfter(events, n) ==
    OpenedIn(SubSeq(events, 1, n)) \ ClosedIn(SubSeq(events, 1, n))

(* C20: when a run command has returned, every warehouse connection it     *)
(* opened has been closed, and each connection was opened only after all   *)
(* the connections opened before it had been closed.                       *)
C20_ConnectionsClosedPerPhase ==
    LastIs("run") =>
        LET events == Val(last).connections
        IN  /\ StillOpenAfter(events, Len(events)) = {}
            /\ \A i \in DOMAIN events :
                  events[i].op = "open" => StillOpenAfter(events, i - 1) = {}

(***************************************************************************)
(* Claims about run_pipeline (checked under SpecPipeline).                 *)
(***************************************************************************)
PipelineDone == IsSome(p_out)

(* The dbt phases the call invoked, in order, and the result it returned. *)
PhasesInvoked == Val(p_out).phases
PipelineResult == Val(p_out).result

(* How often a phase was invoked. *)
TimesInvoked(phase) ==
    Cardinality({ i \in DOMAIN PhasesInvoked : PhasesInvoked[i] = phase })

(* C21: a call of PipelineExecutor.run_pipeline for a known pipeline       *)
(* invokes dbt compile first, and dbt run after it exactly when compile    *)
(* succeeded and compile_only is false; no phase is invoked twice; a       *)
(* phase that fails is the last one invoked, and the call returns          *)
(* success=False with the output of that phase as error_message.           *)
C21_CompileThenRun ==
    (PipelineDone /\ ~Val(p_out).raised /\ SelectorKnown(p_in.pipeline_id)) =>
        /\ PhasesInvoked # <<>>
        /\ PhasesInvoked[1] = "compile"
        /\ TimesInvoked("compile") = 1
        /\ TimesInvoked("run") <= 1
        /\ Len(PhasesInvoked) = TimesInvoked("compile") + TimesInvoked("run")
        /\ TimesInvoked("run") = 1
              <=> (p_in.dbt.compile_ok /\ ~p_in.compile_only)
        /\ ~p_in.dbt.compile_ok =>
              /\ ~PipelineResult.success
              /\ PipelineResult.error_message = Some(p_in.dbt.compile_output)
        /\ (TimesInvoked("run") = 1 /\ ~p_in.dbt.run_ok) =>
              /\ ~PipelineResult.success
              /\ PipelineResult.error_message = Some(p_in.dbt.run_output)
        /\ PipelineResult.success <=>
              /\ p_in.dbt.compile_ok
              /\ p_in.compile_only \/ p_in.dbt.run_ok

(* A call whose compile phase succeeded and whose run phase failed. *)
C21_Witness ==
    /\ PipelineDone
    /\ PhasesInvoked = <<"compile", "run">>
    /\ ~PipelineResult.success
    /\ PipelineResult.error_message = Some("Database Error")
    /\ p_in.dbt.compile_output = "Compilation Error"

(***************************************************************************)
(* Claims about metrics collection (checked under SpecCollect).            *)
(***************************************************************************)
CollectDone == IsSome(c_out)

(* A total of a metrics result, and the QUERY_HISTORY column it sums. *)
TotalColumns ==
    { <<"total_execution_time_ms", "TOTAL_ELAPSED_TIME">>,
      <<"total_bytes_scanned", "BYTES_SCANNED">>,
      <<"total_rows_produced", "ROWS_PRODUCED">> }

(* The sum of one total over the entries of model_details. *)
RECURSIVE SumDetails(_, _)
SumDetails(details, key) ==
    IF details = <<>> THEN 0
    ELSE Head(details)[key] + SumDetails(Tail(details), key)

(* The log entries matched to a model: by the target of the DDL statement  *)
(* in collect_metrics, by the id of the model's row-count query in         *)
(* collect_metrics_by_query_ids.                                           *)
MatchedEntries(call, model_name) ==
    { j \in DOMAIN c_in.history :
        IF call = "collect_metrics"
        THEN c_in.history[j].target = Upper(model_name)
        ELSE c_in.history[j].QUERY_ID = <<"qid", model_name>> }

(* The sum of a column over a set of log entries, NULL counting 0. *)
RECURSIVE SumEntries(_, _)
SumEntries(entries, column) ==
    IF entries = {} THEN 0
    ELSE LET j == CHOOSE k \in entries : TRUE
         IN  OrZero(c_in.history[j][column])
             + SumEntries(entries \ {j}, column)

(* C22: in every result of collect_metrics and of                          *)
(* collect_metrics_by_query_ids each pipeline total is the sum of the      *)
(* per-model totals of model_details, and each per-model total is the sum  *)
(* over the log entries matched to the model (0 when there is none).       *)
C22_TotalsAreSums ==
    CollectDone =>
        \A tc \in TotalColumns :
            /\ Val(c_out).metrics[tc[1]]
                  = SumDetails(Val(c_out).model_details, tc[1])
            /\ \A i \in DOMAIN Val(c_out).model_details :
                  Val(c_out).model_details[i][tc[1]]
                      = SumEntries(
                            MatchedEntries(
                                Val(c_out).call,
                                Val(c_out).model_details[i].model_name),
                            tc[2])

(* collect_metrics has summed two builds of one model, beside a model      *)
(* without a log entry.                                                    *)
C22_Witness ==
    /\ CollectDone
    /\ Val(c_out).call = "collect_metrics"
    /\ Len(Val(c_out).model_details) = 2
    /\ Val(c_out).model_details[1].query_count = 2
    /\ Val(c_out).model_details[1].total_execution_time_ms = 3
    /\ Val(c_out).model_details[2].query_count = 0
    /\ Val(c_out).metrics.total_execution_time_ms = 3

(* The result file of a pipeline records a verification in which every     *)
(* model was accepted for want of a baseline fingerprint.                  *)
FirstRunRecorded(p) ==
    LET result_data == LoadResult(resultFiles, p)
    IN  /\ IsSome(result_data)
        /\ IsSome(Val(result_data).run_data.verification)
        /\ LET results == Val(Val(result_data).run_data.verification).results
           IN  /\ results # <<>>
               /\ \A i \in DOMAIN results :
                     results[i].warnings = <<AcceptedAsBaselineWarning>>

(* The step just taken is a run command with verification, for the         *)
(* pipelines of the save-baseline command before it, in which dbt, the     *)
(* warehouse connections, the queries and the saving of the result all     *)
(* worked and the tables came out as they were.                            *)
StepIsRerunAfterSave ==
    /\ LastIs("save-baseline")
    /\ Val(last).exit_code = EXIT_SUCCESS
    /\ \A p \in Range(RequestedPipelines(Val(last).pipeline)) :
          FirstRunRecorded(p)
    /\ StepIs("run")
    /\ ~Val(last').flag
    /\ Val(last').pipeline = Val(last).pipeline
    /\ warehouse' = warehouse
    /\ Val(last').failed_step \in {"none", "verify"}
    /\ \A i \in DOMAIN Val(last').connections :
          Val(last').connections[i].op \in {"open", "close"}

(* C23: a run with verification that follows the save-baseline of a first  *)
(* run (one that met no baseline), with the warehouse tables unchanged,    *)
(* passes every model and returns exit code 0.                             *)
C23_RerunAfterFirstBaselinePasses ==
    [][StepIsRerunAfterSave =>
          /\ Val(last').exit_code = EXIT_SUCCESS
          /\ \A i \in DOMAIN Val(last').verified :
                ~FewerPassed(Val(last').verified[i])]_vars

(* The fingerprints in the baseline file of a pipeline. *)
StoredFingerprints(p) ==
    BaselineFingerprintsOf(LoadBaseline(baselineFiles, GetPipelineName(p)).data)

(* The verification results in the result file of a pipeline. *)
RecordedResults(p) ==
    Val(Val(LoadResult(resultFiles, p)).run_data.verification).results

(* C24: every fingerprint a save-baseline command has stored has a defined *)
(* row count, the one the run recorded as the model's current row count,   *)
(* and the content hash the run recorded as its current hash.              *)
C24_StoredFingerprintsDefined ==
    (LastIs("save-baseline") /\ Val(last).exit_code = EXIT_SUCCESS) =>
        \A i \in DOMAIN Val(last).written :
            \A k \in DOMAIN StoredFingerprints(Val(last).written[i]) :
                LET fp == StoredFingerprints(Val(last).written[i])[k]
                    recorded == RecordedResults(Val(last).written[i])[k]
                IN  /\ IsSome(fp.row_count)
                    /\ fp.row_count = recorded.current_row_count
                    /\ fp.content_hash = recorded.current_hash

(* What ends a run command before step 4: a pipeline that dbt did not      *)
(* build, a refused connection for the row-count queries, a verification   *)
(* that raised or in which a model failed.                                 *)
FailedBeforeSave(l) ==
    \/ \E i \in DOMAIN l.executed : ~l.executed[i].success
    \/ \E i \in DOMAIN l.connections :
          /\ l.connections[i].op = "refused"
          /\ l.connections[i].phase = "count"
    \/ \E i \in DOMAIN l.verified :
          \/ l.verified[i].raised
          \/ IsNone(l.verified[i].verification)
          \/ FewerPassed(l.verified[i])

(* Every requested pipeline was built, measured and, unless verification   *)
(* was skipped, verified with all its models passing.                      *)
AllStepsPassed(l) ==
    /\ Len(l.executed) = Len(RequestedPipelines(l.pipeline))
    /\ ~FailedBeforeSave(l)
    /\ ~l.flag => Len(l.verified) = Len(RequestedPipelines(l.pipeline))

(* C26: a run command writes a result file only when every requested       *)
(* pipeline has been built, measured and (unless --no-verify) verified     *)
(* with success; a run ended by a failure of one of these steps returns    *)
(* exit code 1 or 2 and leaves every result file as it was; and no other   *)
(* command changes a result file.                                          *)
C26_ResultsWrittenLast ==
    /\ [](LastIs("run") =>
            /\ Val(last).written # <<>> => AllStepsPassed(Val(last))
            /\ FailedBeforeSave(Val(last)) =>
                  /\ Val(last).failed_step \in {"execute", "query", "verify"}
                  /\ Val(last).exit_code
                        \in {EXIT_BENCHMARK_FAILED, EXIT_VERIFICATION_FAILED}
                  /\ Val(last).written = <<>>)
    /\ [][(/\ StepIs("run")
           /\ \/ FailedBeforeSave(Val(last'))
              \/ Val(last').failed_step \in {"execute", "query", "verify"})
             => resultFiles' = resultFiles]_vars
    /\ [][(~StepIs("run")) => resultFiles' = resultFiles]_vars

(* A run of pipeline A that failed verification after an earlier run had   *)
(* written A's result file: the file is still that of the earlier run.     *)
C26_Witness ==
    /\ LastIs("run")
    /\ Val(last).pipeline = "a"
    /\ Val(last).failed_step = "verify"
    /\ Val(last).exit_code = EXIT_VERIFICATION_FAILED
    /\ FirstRunRecorded("A")

(* The result files there are, by pipeline. *)
PipelinesWithResult ==
    { p \in PipelineIds : IsSome(LoadResult(resultFiles, p)) }

(* C27: every result file either has verification_skipped=true or records  *)
(* a verification with failed_models = 0, so that the verification status  *)
(* compare derives from it, and reports in its comparison, is "passed" or  *)
(* "skipped" and never "failed".                                           *)
C27_NoFailedVerificationInResults ==
    /\ \A p \in PipelinesWithResult :
          LET result_data == Val(LoadResult(resultFiles, p))
          IN  /\ \/ result_data.verification_skipped
                 \/ /\ IsSome(result_data.run_data.verification)
                    /\ Val(result_data.run_data.verification).failed_models = 0
              /\ result_data.verification_skipped
                    <=> IsNone(result_data.run_data.verification)
              /\ VerificationStatus(result_data) =
                    IF result_data.verification_skipped THEN "skipped"
                    ELSE "passed"
    /\ LastIs("compare") =>
          \A i \in DOMAIN Val(last).comparisons :
              Val(last).comparisons[i].verification_status
                  \in {"passed", "skipped"}

(* A compare that reports "passed" for a pipeline whose result file was    *)
(* written by a run that verified at least one model.                      *)
C27_Witness ==
    /\ LastIs("compare")
    /\ Len(Val(last).comparisons) >= 1
    /\ \E i \in DOMAIN Val(last).comparisons :
          Val(last).comparisons[i].verification_status = "passed"
    /\ \E p \in PipelinesWithResult :
          /\ ~Val(LoadResult(resultFiles, p)).verification_skipped
          /\ Val(Val(LoadResult(resultFiles, p)).run_data.verification)
                .total_models > 0

(* compare_command can use a pipeline's files: the result file loads and   *)
(* is not empty, the baseline file loads, is not empty and is valid.       *)
ComparableFiles(p) ==
    /\ IsSome(LoadResult(resultFiles, p))
    /\ Val(LoadResult(resultFiles, p)) # <<>>
    /\ LET loaded == LoadBaseline(baselineFiles, GetPipelineName(p))
       IN  /\ ~loaded.raised
           /\ IsSome(loaded.data)
           /\ Val(loaded.data) # <<>>
           /\ ValidateBaseline(loaded.data).valid

(* C28: a compare command for a valid pipeline argument returns exit code  *)
(* 0 exactly when every requested pipeline has a result file and a valid   *)
(* baseline, with or without regressions among its comparisons, and exit   *)
(* code 1 exactly when one of them lacks a usable result or baseline; it   *)
(* changes neither set of files.                                           *)
C28_CompareExitIgnoresRegressions ==
    /\ [](LastIs("compare") /\ ~NormalizePipelineId(Val(last).pipeline).raised
            => /\ Val(last).exit_code = EXIT_SUCCESS
                    <=> \A p \in Range(RequestedPipelines(Val(last).pipeline)) :
                            ComparableFiles(p)
               /\ Val(last).exit_code = EXIT_BENCHMARK_FAILED
                    <=> \E p \in Range(RequestedPipelines(Val(last).pipeline)) :
                            ~ComparableFiles(p)
               /\ Val(last).exit_code
                    \in {EXIT_SUCCESS, EXIT_BENCHMARK_FAILED})
    /\ [][StepIs("compare") =>
            /\ resultFiles' = resultFiles
            /\ baselineFiles' = baselineFiles]_vars

(* A compare that found a regression and returned exit code 0. *)
C28_Witness ==
    /\ LastIs("compare")
    /\ Val(last).exit_code = EXIT_SUCCESS
    /\ \E i \in DOMAIN Val(last).comparisons :
          /\ HasRegression(Val(last).comparisons[i])
          /\ Val(last).comparisons[i].warnings # <<>>

(***************************************************************************)
(* Claims about the aggregated report (checked under SpecAggregate)        *)
(***************************************************************************)
(* The metric comparisons of a list that are flagged is_regression. *)
FlaggedIn(metric_comparisons) ==
    Cardinality({ k \in 1..Len(metric_comparisons) :
                    metric_comparisons[k].is_regression })

(* The flagged metric comparisons of the pipelines compared so far. *)
RECURSIVE FlaggedUpTo(_)
FlaggedUpTo(n) ==
    IF n = 0 THEN 0
    ELSE FlaggedIn(g_cmp[n].comparisons) + FlaggedUpTo(n - 1)

AggregateDone == IsSome(g_out)

(* C29: every PipelineComparison returned by compare_metrics has as many   *)
(* warnings as metric comparisons flagged is_regression, in the build set, *)
(* in the query set and in both together, and the aggregated report's      *)
(* total_regressions is the number of flagged metric comparisons over all  *)
(* the pipelines compared.                                                 *)
C29_WarningsCountRegressions ==
    /\ \A i \in 1..Len(g_cmp) :
          /\ Len(g_cmp[i].warnings) = FlaggedIn(g_cmp[i].comparisons)
          /\ Len(g_cmp[i].build_warnings)
                = FlaggedIn(g_cmp[i].build_comparisons)
          /\ Len(g_cmp[i].query_warnings)
                = FlaggedIn(g_cmp[i].query_comparisons)
          /\ FlaggedIn(g_cmp[i].comparisons)
                = FlaggedIn(g_cmp[i].build_comparisons)
                  + FlaggedIn(g_cmp[i].query_comparisons)
    /\ AggregateDone =>
          Val(g_out).total_regressions = FlaggedUpTo(Len(g_cmp))

(* An aggregated report over two pipelines: one regressed in its build     *)
(* (time and bytes) and in its query, the other in its rows only, which    *)
(* are compared but never flagged.                                         *)
C29_Witness ==
    /\ AggregateDone
    /\ Len(g_cmp) = 2
    /\ Len(g_cmp[1].build_warnings) >= 2
    /\ Len(g_cmp[1].query_warnings) >= 1
    /\ g_cmp[2].warnings = <<>>
    /\ g_in[2].current_metrics = MetricsResult(1, 1, 2)
    /\ Val(g_out).total_regressions >= 3

(***************************************************************************)
(* Claims about what the commands leave alone (checked under Spec)         *)
(***************************************************************************)
(* The step just taken changed the baseline file of p. *)
BaselineChanged(p) ==
    baselineFiles'[BaselineFileOf(p)] # baselineFiles[BaselineFileOf(p)]

(* The step just taken is a save-baseline command that saved the baseline  *)
(* of p: save_baseline returned True for it.                               *)
StepSaved(p) ==
    /\ StepIs("save-baseline")
    /\ \E i \in 1..Len(Val(last').written) : Val(last').written[i] = p

(* C30: compare leaves every baseline file and every result file as it     *)
(* was, run leaves every baseline file as it was, save-baseline leaves the *)
(* result files and the baseline files of the pipelines it was not asked   *)
(* for as they were, and a baseline file changes only in a step in which   *)
(* save_baseline succeeded for its pipeline, so that it always holds what  *)
(* the last successful save wrote.                                         *)
C30_BaselineHoldsLastSuccessfulSave ==
    [][/\ StepIs("compare") =>
             baselineFiles' = baselineFiles /\ resultFiles' = resultFiles
       /\ StepIs("run") => baselineFiles' = baselineFiles
       /\ StepIs("save-baseline") =>
             /\ resultFiles' = resultFiles
             /\ \A p \in PipelineIds \ Requested(Val(last').pipeline) :
                   ~BaselineChanged(p)
       /\ \A p \in PipelineIds : BaselineChanged(p) => StepSaved(p)]_vars

=============================================================================
